---------------------------- MODULE Spec2Model ----------------------------
(***************************************************************************)
(* Model of the layout-aware MCQ extractor of src/main.py.                 *)
(*                                                                         *)
(* A line of text is a sequence of one-character strings.  Every regular   *)
(* expression of the source is an operator that walks the characters the   *)
(* way the expression does (greedy quantifiers, ordered alternation and    *)
(* the backtracking that can change the outcome).  The only whitespace     *)
(* character of the modelled alphabet is the blank.                        *)
(*                                                                         *)
(* Python's None is the value None below; a text is a sequence of          *)
(* characters, so "" is << >> and differs from None, as in the source.     *)
(***************************************************************************)
EXTENDS Integers, Sequences, FiniteSets, TLC

\* ------------------------------------------------------------------------
\* Characters
\* ------------------------------------------------------------------------

None == <<"None">>

UC == <<"A","B","C","D","E","F","G","H","I","J","K","L","M",
        "N","O","P","Q","R","S","T","U","V","W","X","Y","Z">>
LC == <<"a","b","c","d","e","f","g","h","i","j","k","l","m",
        "n","o","p","q","r","s","t","u","v","w","x","y","z">>

Digits == {"0","1","2","3","4","5","6","7","8","9"}

DigitVal == [c \in Digits |->
               CASE c = "0" -> 0 [] c = "1" -> 1 [] c = "2" -> 2 [] c = "3" -> 3
                 [] c = "4" -> 4 [] c = "5" -> 5 [] c = "6" -> 6 [] c = "7" -> 7
                 [] c = "8" -> 8 [] c = "9" -> 9]

IsUpper(c) == \E i \in 1..26 : UC[i] = c
IsLowerCh(c) == \E i \in 1..26 : LC[i] = c
Lower(c) == IF IsUpper(c) THEN LC[CHOOSE i \in 1..26 : UC[i] = c] ELSE c
Upper(c) == IF IsLowerCh(c) THEN UC[CHOOSE i \in 1..26 : LC[i] = c] ELSE c
IsDigit(c) == c \in Digits
IsSpace(c) == c = " "
IsAlnum(c) == IsDigit(c) \/ IsUpper(c) \/ IsLowerCh(c)
\* \w of the re module
IsWord(c) == IsAlnum(c) \/ c = "_"

LowerSeq(s) == [i \in 1..Len(s) |-> Lower(s[i])]
UpperSeq(s) == [i \in 1..Len(s) |-> Upper(s[i])]

\* ------------------------------------------------------------------------
\* Scanning helpers
\* ------------------------------------------------------------------------

\* s[i:] of Python, i counted from 1
Drop(s, i) == SubSeq(s, i, Len(s))

\* the position after a greedy \s* that starts at i
SkipWS(s, i) ==
  CHOOSE j \in i..(Len(s) + 1) :
    /\ \A k \in i..(j - 1) : IsSpace(s[k])
    /\ (j = Len(s) + 1 \/ ~IsSpace(s[j]))

\* str.strip()
Strip(s) ==
  IF \A k \in 1..Len(s) : IsSpace(s[k]) THEN << >>
  ELSE LET a == CHOOSE j \in 1..Len(s) :
                  ~IsSpace(s[j]) /\ \A k \in 1..(j - 1) : IsSpace(s[k])
           b == CHOOSE j \in 1..Len(s) :
                  ~IsSpace(s[j]) /\ \A k \in (j + 1)..Len(s) : IsSpace(s[k])
       IN SubSeq(s, a, b)

\* str.rstrip()
RStrip(s) ==
  IF \A k \in 1..Len(s) : IsSpace(s[k]) THEN << >>
  ELSE LET b == CHOOSE j \in 1..Len(s) :
                  ~IsSpace(s[j]) /\ \A k \in (j + 1)..Len(s) : IsSpace(s[k])
       IN SubSeq(s, 1, b)

\* the number of digits from position i on
DigitRun(s, i) ==
  LET j == CHOOSE j \in i..(Len(s) + 1) :
             /\ \A k \in i..(j - 1) : IsDigit(s[k])
             /\ (j = Len(s) + 1 \/ ~IsDigit(s[j]))
  IN j - i

\* the literal w (given in lower case) at position i, re.IGNORECASE
LitCI(s, i, w) ==
  /\ i + Len(w) - 1 <= Len(s)
  /\ \A k \in 1..Len(w) : Lower(s[i + k - 1]) = w[k]

At(s, i, set) == i <= Len(s) /\ s[i] \in set

\* the position after an optional character of set at i
Opt(s, i, set) == IF At(s, i, set) THEN i + 1 ELSE i

\* \b between positions i-1 and i
WordBoundary(s, i) ==
  LET before == i > 1 /\ i - 1 <= Len(s) /\ IsWord(s[i - 1])
      after  == i <= Len(s) /\ IsWord(s[i])
  IN before # after

\* the length of the greedy match of (0?\d{1,3}) at i, 0 when it cannot match
NumLen(s, i) ==
  LET r == DigitRun(s, i)
  IN IF r = 0 THEN 0
     ELSE IF s[i] = "0" /\ r >= 2 THEN (IF r < 4 THEN r ELSE 4)
     ELSE (IF r < 3 THEN r ELSE 3)

RECURSIVE ToInt(_)
\* int(s) of a digit string
ToInt(s) == IF s = << >> THEN 0
            ELSE 10 * ToInt(SubSeq(s, 1, Len(s) - 1)) + DigitVal[s[Len(s)]]

NoMatch == [ok |-> FALSE, g1 |-> << >>, g2 |-> << >>]
Match(a, b) == [ok |-> TRUE, g1 |-> a, g2 |-> b]


\* ------------------------------------------------------------------------
\* Regex patterns (applied to .strip()-ed line text)
\* ------------------------------------------------------------------------

W_question == <<"q","u","e","s","t","i","o","n">>
W_que == <<"q","u","e">>
W_q == <<"q">>
W_answer == <<"a","n","s","w","e","r">>
W_and == <<"a","n","d">>
W_solution == <<"s","o","l","u","t","i","o","n">>
W_key == <<"k","e","y">>
W_sheet == <<"s","h","e","e","t">>
W_explanation == <<"e","x","p","l","a","n","a","t","i","o","n">>
W_hint == <<"h","i","n","t">>
W_page == <<"p","a","g","e">>
W_www == <<"w","w","w",".">>
W_http == <<"h","t","t","p">>
W_copyright == <<"c","o","p","y","r","i","g","h","t">>

\* characters outside ASCII are written as named one-character tokens
EnDash == "endash"
Bullet == "bullet"
CopyrightSign == "copyrightsign"

\* [.):\u2013\-]
HeaderDelims == {".", ")", ":", EnDash, "-"}
\* [.):\-]
PlainDelims == {".", ")", ":", "-"}

\* the position after the prefix (?:(?:Question|Que)\.?\s+|Q\.?\s*), 0 when the
\* line has none; with dotRequired the second alternative is Q\.\s*
PrefixEnd(s, dotRequired) ==
  LET w == IF LitCI(s, 1, W_question) THEN 9
           ELSE IF LitCI(s, 1, W_que) THEN 4 ELSE 0
      d == Opt(s, w, {"."})
  IN IF w > 0 /\ At(s, d, {" "}) THEN SkipWS(s, d)
     ELSE IF LitCI(s, 1, W_q) /\ (~dotRequired \/ At(s, 2, {"."}))
          THEN SkipWS(s, Opt(s, 2, {"."}))
     ELSE 0

QUESTION_PREFIXED_RE(s) ==
  LET p == PrefixEnd(s, FALSE)
      i == Opt(s, p, {"("})
      n == NumLen(s, i)
      j == SkipWS(s, Opt(s, SkipWS(s, Opt(s, i + n, {")"})), HeaderDelims))
  IN IF p = 0 \/ n = 0 THEN NoMatch
     ELSE Match(SubSeq(s, i, i + n - 1), Drop(s, j))

QUESTION_BARE_NUM_RE(s) ==
  LET i  == Opt(s, 1, {"("})
      n  == NumLen(s, i)
      j  == i + n
      \* \)? taken, then \s*, then the separator
      ka == SkipWS(s, j + 1)
      \* \)? given back: the separator may be the parenthesis itself
      kb == SkipWS(s, j)
  IN IF n = 0 THEN NoMatch
     ELSE IF At(s, j, {")"}) /\ At(s, ka, HeaderDelims)
          THEN Match(SubSeq(s, i, j - 1), Drop(s, SkipWS(s, ka + 1)))
     ELSE IF At(s, kb, HeaderDelims)
          THEN Match(SubSeq(s, i, j - 1), Drop(s, SkipWS(s, kb + 1)))
     ELSE NoMatch

RECURSIVE OcrReps(_, _, _)
\* the position after at most k greedy repetitions of (?:\s+\d) from i
OcrReps(s, i, k) ==
  IF k = 0 THEN i
  ELSE LET j == SkipWS(s, i)
       IN IF j > i /\ At(s, j, Digits) THEN OcrReps(s, j + 1, k - 1) ELSE i

\* \s*[.):\-]?\s*(.+)$ from position e: the start of group 2, 0 when it fails
OcrTail(s, e) ==
  LET t  == SkipWS(s, e)
      t1 == Opt(s, t, PlainDelims)
      t2 == SkipWS(s, t1)
  IN IF t2 <= Len(s) THEN t2
     ELSE IF t <= Len(s) THEN t
     ELSE 0

QUESTION_OCR_SPACED_RE(s) ==
  LET ends == {OcrReps(s, 2, k) : k \in 1..3} \ {2}
      good == {e \in ends : OcrTail(s, e) > 0}
      \* greedy: the longest group that lets the rest match
      e    == CHOOSE x \in good : \A y \in good : y <= x
  IN IF ~At(s, 1, Digits) \/ good = {} THEN NoMatch
     ELSE Match(SubSeq(s, 1, e - 1), Drop(s, OcrTail(s, e)))

RomanUnits == { <<"i","x">>, <<"i","v">>, << >>, <<"i">>, <<"i","i">>,
                <<"i","i","i">>, <<"v">>, <<"v","i">>, <<"v","i","i">>,
                <<"v","i","i","i">> }

\* X{0,3}(?:IX|IV|V?I{0,3}) matches the whole of r (given in lower case)
InRomanL(r) ==
  \E a \in 0..3 :
    /\ a <= Len(r)
    /\ \A k \in 1..a : r[k] = "x"
    /\ Drop(r, a + 1) \in RomanUnits

\* the number of characters of set (compared in lower case) from position i on
RunLen(s, i, set) ==
  LET j == CHOOSE j \in i..(Len(s) + 1) :
             /\ \A k \in i..(j - 1) : Lower(s[k]) \in set
             /\ (j = Len(s) + 1 \/ Lower(s[j]) \notin set)
  IN j - i

QUESTION_ROMAN_RE(s) ==
  LET n == RunLen(s, 1, {"x", "i", "v"})
      g == SubSeq(s, 1, n)
      k == SkipWS(s, n + 1)
  IN IF InRomanL(LowerSeq(g)) /\ ~At(s, n + 1, {"("}) /\ At(s, k, {".", ":"})
     THEN Match(g, Drop(s, SkipWS(s, k + 1)))
     ELSE NoMatch

QNUM_ONLY_RE(s) ==
  LET p == PrefixEnd(s, TRUE)
      i == Opt(s, p, {"("})
      n == NumLen(s, i)
      j == i + n
      \* \)?\s*[.):\-]?\s*$ : every way of taking the optional parts
      tails == { SkipWS(s, d) : d \in
                   UNION { {SkipWS(s, c), Opt(s, SkipWS(s, c), PlainDelims)} :
                           c \in {j, Opt(s, j, {")"})} } }
  IN IF p = 0 \/ n = 0 \/ (Len(s) + 1) \notin tails THEN NoMatch
     ELSE Match(SubSeq(s, i, j - 1), << >>)

QNUM_ROMAN_ONLY_RE(s) ==
  LET n == RunLen(s, 1, {"x", "i", "v"})
      g == SubSeq(s, 1, n)
      k == SkipWS(s, Opt(s, SkipWS(s, n + 1), {".", ":"}))
  IN IF InRomanL(LowerSeq(g)) /\ ~At(s, n + 1, {"("}) /\ k = Len(s) + 1
     THEN Match(g, << >>)
     ELSE NoMatch

OPTION_LETTER_RE(s) ==
  LET i == Opt(s, 1, {"(", "["})
      j == SkipWS(s, Opt(s, SkipWS(s, i + 2), {"-", ":"}))
  IN IF At(s, i, {"A","B","C","D","a","b","c","d"})
        /\ At(s, i + 1, {")", "]", ".", ":"})
     THEN Match(<<s[i]>>, Drop(s, j))
     ELSE NoMatch

RomanOptionGroups == { <<"i">>, <<"i","i">>, <<"i","i","i">>, <<"i","v">>, << >>,
                       <<"v">>, <<"v","i">>, <<"v","i","i">>, <<"v","i","i","i">> }

OPTION_ROMAN_RE(s) ==
  LET n == RunLen(s, 2, {"i", "v"})
      g == SubSeq(s, 2, n + 1)
      k == SkipWS(s, n + 3)
  IN IF At(s, 1, {"("}) /\ LowerSeq(g) \in RomanOptionGroups
        /\ At(s, n + 2, {")"}) /\ k <= Len(s)
     THEN Match(g, Drop(s, k))
     ELSE NoMatch

OPTION_NUMERIC_RE(s) ==
  IF At(s, 1, {"1","2","3","4"}) /\ At(s, 2, {")", "."}) /\ At(s, 3, {" "})
     /\ SkipWS(s, 3) <= Len(s)
  THEN Match(<<s[1]>>, Drop(s, SkipWS(s, 3)))
  ELSE NoMatch

OPTION_BULLET_RE(s) ==
  IF At(s, 1, {Bullet, "*", "-", EnDash}) /\ At(s, 2, {" "}) /\ SkipWS(s, 2) <= Len(s)
  THEN Match(Drop(s, SkipWS(s, 2)), << >>)
  ELSE NoMatch

\* the positions after  w s?  at i
OptS(s, i, w) ==
  IF LitCI(s, i, w)
  THEN {i + Len(w)} \cup (IF LitCI(s, i + Len(w), <<"s">>) THEN {i + Len(w) + 1} ELSE {})
  ELSE {}

\* the positions at which the alternatives of STOP_PATTERNS can end
StopEnds(s) ==
  LET afterAnswers == { SkipWS(s, e) : e \in OptS(s, 1, W_answer) }
      afterAnd == { SkipWS(s, k + 1) : k \in {k \in afterAnswers : At(s, k, {"&"})} }
                    \cup { SkipWS(s, k + 3) : k \in {k \in afterAnswers : LitCI(s, k, W_and)} }
      answer == IF LitCI(s, 1, W_answer) THEN {SkipWS(s, 7)} ELSE {}
  IN UNION { OptS(s, k, W_solution) : k \in afterAnd }
       \cup { k + 3 : k \in {k \in answer : LitCI(s, k, W_key)} }
       \cup { k + 5 : k \in {k \in answer : LitCI(s, k, W_sheet)} }
       \cup OptS(s, 1, W_solution)
       \cup OptS(s, 1, W_explanation)
       \cup OptS(s, 1, W_hint)

STOP_PATTERNS(s) == \E e \in StopEnds(s) : WordBoundary(s, e)

\* re.search(r"\bsolution\s*:", line, re.IGNORECASE)
SolutionColon(s) ==
  \E i \in 1..Len(s) :
    /\ WordBoundary(s, i)
    /\ LitCI(s, i, W_solution)
    /\ At(s, SkipWS(s, i + 8), {":"})

NOISE_RE(s) ==
  LET p  == SkipWS(s, 5)
      d1 == DigitRun(s, 1)
      sl == SkipWS(s, 1 + d1)
      d2 == SkipWS(s, sl + 1)
      End(i) == SkipWS(s, i) = Len(s) + 1
  IN \/ LitCI(s, 1, W_page) /\ DigitRun(s, p) > 0 /\ End(p + DigitRun(s, p))
     \/ d1 > 0 /\ At(s, sl, {"/"}) /\ DigitRun(s, d2) > 0 /\ End(d2 + DigitRun(s, d2))
     \/ LitCI(s, 1, W_www) /\ End(5)
     \/ LitCI(s, 1, W_http) /\ End(5)
     \/ At(s, 1, {CopyrightSign}) /\ End(2)
     \/ LitCI(s, 1, W_copyright) /\ End(10)

\* re.search(r"\b(?:answer|solution)\b", rest, re.IGNORECASE)
AnswerWord(s) ==
  \E i \in 1..Len(s) :
    /\ WordBoundary(s, i)
    /\ \/ LitCI(s, i, W_answer) /\ WordBoundary(s, i + 6)
       \/ LitCI(s, i, W_solution) /\ WordBoundary(s, i + 8)


\* ------------------------------------------------------------------------
\* Helper utilities
\* ------------------------------------------------------------------------

MaxQuestionNumber == 200
INDENT_TOL == 10
MaxMathFragmentLen == 28

NoKey == "None"
OptionKeys == <<"option_a", "option_b", "option_c", "option_d">>
Letters == <<"a", "b", "c", "d">>
BulletKey == "__bullet__"

RECURSIVE LStripZeros(_)
\* num_str.lstrip("0")
LStripZeros(s) == IF s # << >> /\ s[1] = "0" THEN LStripZeros(Tail(s)) ELSE s

\* str.replace(" ", "")
RemoveSpaces(s) == SelectSeq(s, LAMBDA c : ~IsSpace(c))

is_valid_question_start(num_str) ==
  ToInt(LStripZeros(num_str)) <= MaxQuestionNumber

option_letter_to_key(letter) == OptionKeys[CHOOSE i \in 1..4 : Letters[i] = Lower(letter)]

roman_option_to_key(roman) ==
  LET r == LowerSeq(roman)
  IN CASE r = <<"i">> -> "option_a"
       [] r = <<"i","i">> -> "option_b"
       [] r = <<"i","i","i">> -> "option_c"
       [] r = <<"i","v">> -> "option_d"
       [] OTHER -> NoKey

numeric_to_option_key(digit) ==
  CASE digit = "1" -> "option_a"
    [] digit = "2" -> "option_b"
    [] digit = "3" -> "option_c"
    [] digit = "4" -> "option_d"
    [] OTHER -> NoKey

\* the letter of an option key: key[-1]
KeyLetter(key) == Letters[CHOOSE i \in 1..4 : OptionKeys[i] = key]

NoOption == [key |-> NoKey, text |-> None]

try_option(line, in_question) ==
  LET ml == OPTION_LETTER_RE(line)
      mr == OPTION_ROMAN_RE(line)
      mn == OPTION_NUMERIC_RE(line)
      mb == OPTION_BULLET_RE(line)
  IN IF ml.ok THEN [key |-> option_letter_to_key(ml.g1[1]), text |-> Strip(ml.g2)]
     ELSE IF ~in_question THEN NoOption
     ELSE IF mr.ok /\ roman_option_to_key(mr.g1) # NoKey
          THEN [key |-> roman_option_to_key(mr.g1), text |-> Strip(mr.g2)]
     ELSE IF mn.ok /\ numeric_to_option_key(mn.g1[1]) # NoKey
          THEN [key |-> numeric_to_option_key(mn.g1[1]), text |-> Strip(mn.g2)]
     ELSE IF mb.ok THEN [key |-> BulletKey, text |-> Strip(mb.g1)]
     ELSE NoOption

\* Python's "not x" of an option slot: None and "" are both false
Falsy(x) == x = None \/ x = << >>

\* the key _assign_bullet_option fills, NoKey when every slot is taken
BulletSlot(q) ==
  IF \E i \in 1..4 : Falsy(q[OptionKeys[i]])
  THEN OptionKeys[CHOOSE i \in 1..4 :
                    Falsy(q[OptionKeys[i]]) /\ \A k \in 1..(i - 1) : ~Falsy(q[OptionKeys[k]])]
  ELSE NoKey

assign_bullet_option(current_q, text) ==
  IF BulletSlot(current_q) = NoKey THEN current_q
  ELSE [current_q EXCEPT ![BulletSlot(current_q)] = text]

count_options(q) == Cardinality({i \in 1..4 : ~Falsy(q[OptionKeys[i]])})

Minus == "minus"
MathChars == {"[", "]", "(", ")", "+", "-", Minus, "=", "*", "/", ".", ":", " "}

looks_math_fragment(text) ==
  LET t == Strip(text)
  IN /\ t # << >>
     /\ Len(t) <= MaxMathFragmentLen
     /\ \A k \in 1..Len(t) : IsAlnum(t[k]) \/ t[k] \in MathChars

Contains(s, c) == \E k \in 1..Len(s) : s[k] = c

\* re.match(r"^\d+[+\-\u2212][A-Za-z0-9]+$", s)
DigitsSignAlnum(s) ==
  LET d == DigitRun(s, 1)
  IN /\ d > 0
     /\ At(s, d + 1, {"+", "-", Minus})
     /\ d + 2 <= Len(s)
     /\ \A k \in (d + 2)..Len(s) : IsAlnum(s[k])

append_option_text(existing, incoming) ==
  LET new_part == Strip(incoming)
      old == IF existing = None THEN << >> ELSE existing
      current == RStrip(old)
      compact_current == RemoveSpaces(current)
      compact_new == RemoveSpaces(new_part)
      d == DigitRun(compact_new, 1)
      starts_like_denominator ==
        \/ LitCI(compact_new, 1, <<"x">>)
        \/ LitCI(compact_new, d + 1, <<"x">>) /\ At(compact_new, d + 2, Digits)
        \/ DigitsSignAlnum(compact_new)
      current_looks_like_numerator ==
        \/ current[Len(current)] = "]"
        \/ \E k \in 1..Len(compact_current) : LitCI(compact_current, k, <<"m","v">>)
        \/ \E k \in 1..Len(compact_current) : compact_current[k] \in {"+", "-", Minus}
  IN IF new_part = << >> THEN Strip(old)
     ELSE IF current = << >> THEN new_part
     ELSE IF new_part \in {<<"]">>, <<")">>} THEN current \o new_part
     ELSE IF d = Len(compact_new) /\ d > 0 /\ compact_current # << >>
             /\ IsAlnum(compact_current[Len(compact_current)])
          THEN current \o compact_new
     ELSE IF /\ ~Contains(current, "/")
             /\ starts_like_denominator
             /\ current_looks_like_numerator
             /\ looks_math_fragment(current)
             /\ looks_math_fragment(new_part)
          THEN current \o <<" ", "/", " ">> \o new_part
     ELSE current \o <<" ">> \o new_part

RECURSIVE CollapseFrom(_, _)
\* re.sub(r"\s+", " ", text) from position i on
CollapseFrom(s, i) ==
  IF i > Len(s) THEN << >>
  ELSE IF IsSpace(s[i]) THEN <<" ">> \o CollapseFrom(s, SkipWS(s, i))
  ELSE <<s[i]>> \o CollapseFrom(s, i + 1)

CollapseWS(s) == Strip(CollapseFrom(s, 1))

\* (?i)\b(mv2\s*0)\s*([23]?\s*x2\s*0)\b at position i:
\* <<end of group 1, start of group 2, end of group 2>>, << >> when it fails
FractionAt(s, i) ==
  LET z1 == SkipWS(s, i + 3)
      g2 == SkipWS(s, z1 + 1)
      x  == SkipWS(s, Opt(s, g2, {"2", "3"}))
      z2 == SkipWS(s, x + 2)
  IN IF /\ WordBoundary(s, i)
        /\ LitCI(s, i, <<"m", "v", "2">>)
        /\ At(s, z1, {"0"})
        /\ LitCI(s, x, <<"x", "2">>)
        /\ At(s, z2, {"0"})
        /\ WordBoundary(s, z2 + 1)
     THEN <<z1, g2, z2>>
     ELSE << >>

RECURSIVE FractionSub(_, _)
\* re.sub(pattern, r"\1 / \2", s) from position i on
FractionSub(s, i) ==
  IF i > Len(s) THEN << >>
  ELSE LET m == FractionAt(s, i)
       IN IF m # << >>
          THEN SubSeq(s, i, m[1]) \o <<" ", "/", " ">> \o SubSeq(s, m[2], m[3])
                 \o FractionSub(s, m[3] + 1)
          ELSE <<s[i]>> \o FractionSub(s, i + 1)

normalize_math_option_text(text) ==
  IF text = None THEN None
  ELSE LET normalized == CollapseWS(text)
       IN IF normalized = << >> \/ Contains(normalized, "/") THEN normalized
          ELSE FractionSub(normalized, 1)


\* ------------------------------------------------------------------------
\* State-machine parser (operates on visual lines)
\* ------------------------------------------------------------------------

NoQuestion == [none |-> TRUE]

EmptyOptY == [l \in {} |-> 0]

make_question(num_str, text, y_top) ==
  [ question       |-> text,
    option_a       |-> None,
    option_b       |-> None,
    option_c       |-> None,
    option_d       |-> None,
    option_a_image |-> None,
    option_b_image |-> None,
    option_c_image |-> None,
    option_d_image |-> None,
    has_diagram    |-> 0,
    image_path     |-> None,
    num            |-> num_str,
    y_start        |-> y_top,
    y_end          |-> y_top,
    opt_y          |-> EmptyOptY ]

\* the parser's local variables before the first line
ParserInit ==
  [ questions       |-> << >>,
    current_q       |-> NoQuestion,
    state           |-> "IDLE",
    stopped         |-> FALSE,
    last_option_key |-> NoKey,
    last_option_x0  |-> 0,
    event           |-> "start" ]

NormalizeOptions(q) ==
  [q EXCEPT !.option_a = normalize_math_option_text(q.option_a),
            !.option_b = normalize_math_option_text(q.option_b),
            !.option_c = normalize_math_option_text(q.option_c),
            !.option_d = normalize_math_option_text(q.option_d)]

\* faulty variant: a question with fewer than two options is dropped
finish_question_gated(st) ==
  IF st.current_q = NoQuestion THEN st
  ELSE IF count_options(st.current_q) < 2
  THEN [st EXCEPT !.current_q = NoQuestion, !.last_option_key = NoKey, !.last_option_x0 = 0]
  ELSE [st EXCEPT !.questions = Append(st.questions, NormalizeOptions(st.current_q)),
                  !.current_q = NoQuestion,
                  !.last_option_key = NoKey,
                  !.last_option_x0 = 0]

\* faulty variant: the finished question is put in front of the list
finish_question_prepend(st) ==
  IF st.current_q = NoQuestion THEN st
  ELSE [st EXCEPT !.questions = <<NormalizeOptions(st.current_q)>> \o st.questions,
                  !.current_q = NoQuestion,
                  !.last_option_key = NoKey,
                  !.last_option_x0 = 0]

\* faulty variant: finishing a question puts the parser back in IDLE
finish_question_to_idle(st) ==
  IF st.current_q = NoQuestion THEN st
  ELSE [st EXCEPT !.questions = Append(st.questions, NormalizeOptions(st.current_q)),
                  !.current_q = NoQuestion,
                  !.state = "IDLE",
                  !.last_option_key = NoKey,
                  !.last_option_x0 = 0]

finish_question(st) ==
  IF st.current_q = NoQuestion THEN st
  ELSE [st EXCEPT !.questions = Append(st.questions, NormalizeOptions(st.current_q)),
                  !.current_q = NoQuestion,
                  !.last_option_key = NoKey,
                  !.last_option_x0 = 0]

\* a header line: finish the live question, start a new one
StartQuestion(st, num_str, text, y_top, ev) ==
  [finish_question(st) EXCEPT !.current_q = make_question(num_str, text, y_top),
                              !.state = "IN_QUESTION",
                              !.last_option_key = NoKey,
                              !.last_option_x0 = 0,
                              !.event = ev]

\* _opt_y with the letter's first top recorded
RecordOptY(opt_y, letter, y_top) ==
  IF letter \in DOMAIN opt_y THEN opt_y
  ELSE [l \in (DOMAIN opt_y) \cup {letter} |-> IF l = letter THEN y_top ELSE opt_y[l]]

\* the slot test of a labelled option line: "if not current_q.get(opt_key)"
SlotFree(q, key) == Falsy(q[key])

\* the branch "elif opt_key and current_q is not None"
OptionLine(st, opt, y_top, line_x0) ==
  LET q   == st.current_q
      key == IF opt.key = BulletKey THEN BulletSlot(q)
             ELSE IF SlotFree(q, opt.key) THEN opt.key ELSE NoKey
  IN IF key = NoKey
     THEN [st EXCEPT !.state = "IN_OPTIONS", !.event = "option"]
     ELSE [st EXCEPT !.current_q = [q EXCEPT ![key] = opt.text,
                                             !.opt_y = RecordOptY(q.opt_y, KeyLetter(key), y_top)],
                     !.last_option_key = key,
                     !.last_option_x0 = line_x0,
                     !.state = "IN_OPTIONS",
                     !.event = "option"]

\* faulty variant: the separator is added to an empty question text too
ContinuationLineAlwaysSep(st, line, line_x0) ==
  LET q == st.current_q
      k == st.last_option_key
  IN IF st.state = "IN_QUESTION"
     THEN [st EXCEPT !.current_q.question = q.question \o <<" ">> \o line,
                     !.event = "continuation"]
     ELSE IF st.state = "IN_OPTIONS" /\ k # NoKey /\ q[k] # None
     THEN [st EXCEPT !.current_q[k] = append_option_text(q[k], line),
                     !.event = "continuation"]
     ELSE [st EXCEPT !.event = "dropped"]

\* faulty variant: in IN_OPTIONS a line that is not indented past the option
\* label goes to the question text
ContinuationLineByIndent(st, line, line_x0) ==
  LET q == st.current_q
      k == st.last_option_key
  IN IF st.state = "IN_QUESTION"
     THEN [st EXCEPT !.current_q.question =
                        q.question \o (IF q.question # << >> THEN <<" ">> ELSE << >>) \o line,
                     !.event = "continuation"]
     ELSE IF st.state = "IN_OPTIONS"
     THEN IF k # NoKey /\ q[k] # None /\ line_x0 >= st.last_option_x0 + INDENT_TOL
          THEN [st EXCEPT !.current_q[k] = append_option_text(q[k], line),
                          !.event = "continuation"]
          ELSE [st EXCEPT !.current_q.question = q.question \o <<" ">> \o line,
                          !.event = "continuation"]
     ELSE [st EXCEPT !.event = "dropped"]

\* the branch "elif current_q is not None": a continuation line
ContinuationLine(st, line, line_x0) ==
  LET q == st.current_q
      k == st.last_option_key
  IN IF st.state = "IN_QUESTION"
     THEN [st EXCEPT !.current_q.question =
                        q.question \o (IF q.question # << >> THEN <<" ">> ELSE << >>) \o line,
                     !.event = "continuation"]
     ELSE IF st.state = "IN_OPTIONS"
     THEN IF k # NoKey /\ q[k] # None /\ line_x0 >= st.last_option_x0 + INDENT_TOL
          THEN [st EXCEPT !.current_q[k] = append_option_text(q[k], line),
                          !.event = "continuation"]
          ELSE IF k # NoKey /\ q[k] # None
          THEN [st EXCEPT !.current_q[k] = append_option_text(q[k], line),
                          !.event = "continuation"]
          ELSE [st EXCEPT !.event = "dropped"]
     ELSE [st EXCEPT !.event = "dropped"]

\* faulty variant: the live question is finished but stopped is not latched
StopAtStartNoLatch(st, line) ==
  IF STOP_PATTERNS(line)
  THEN [finish_question(st) EXCEPT !.event = "stop"]
  ELSE st

\* the first test of the hard stop: STOP_PATTERNS.match(line)
StopAtStart(st, line) ==
  IF STOP_PATTERNS(line)
  THEN [finish_question(st) EXCEPT !.stopped = TRUE, !.event = "stop"]
  ELSE st

\* the second test: the line contains "solution:"
StopAtSolution(s1, line) ==
  IF ~s1.stopped /\ SolutionColon(line)
  THEN [finish_question(s1) EXCEPT !.stopped = TRUE, !.event = "stop"]
  ELSE s1

\* the hard stop: both tests of the loop body, in order
StopCheck(st, line) == StopAtSolution(StopAtStart(st, line), line)

\* faulty variant: the Y-extent is not tracked
TrackYEndNever(st, y_bot) == st

\* "Track Y-extent of current question block"
TrackYEnd(st, y_bot) ==
  IF st.current_q # NoQuestion THEN [st EXCEPT !.current_q.y_end = y_bot] ELSE st

InQuestionCtx(st) == st.state \in {"IN_QUESTION", "IN_OPTIONS"} /\ st.current_q # NoQuestion

\* step 4: the prefixed pattern first, then the bare one
NumericMatch(pre, line) == IF pre.ok THEN pre ELSE QUESTION_BARE_NUM_RE(line)

\* faulty variant: the header interpretation is kept for a line that is also
\* an option
NumericFilterKeepingHeader(st, m, rest, opt) ==
  IF /\ m.ok
     /\ is_valid_question_start(m.g1)
     /\ ~(st.state = "IN_OPTIONS" /\ st.current_q # NoQuestion /\ rest = << >>)
     /\ ~AnswerWord(rest)
  THEN m
  ELSE NoMatch

\* the suppressions of step 4 applied to the match m
NumericFilter(st, m, rest, opt) ==
  IF /\ m.ok
     /\ is_valid_question_start(m.g1)
     /\ ~(st.state = "IN_OPTIONS" /\ st.current_q # NoQuestion /\ rest = << >>)
     /\ opt.key = NoKey
     /\ ~AnswerWord(rest)
  THEN m
  ELSE NoMatch

NumericRest(st, m, opt) == NumericFilter(st, m, Strip(m.g2), opt)

\* the numeric header of a line after every suppression of step 4
NumericHeader(st, line, opt) ==
  NumericRest(st, NumericMatch(QUESTION_PREFIXED_RE(line), line), opt)

\* the validity test of step 5 applied to the match m
OcrFilter(m) ==
  IF m.ok /\ is_valid_question_start(RemoveSpaces(m.g1)) THEN m ELSE NoMatch

\* faulty variant: the OCR-spaced header is tried in every state
OcrHeaderAnyState(st, line, opt, qnum_only, q_num_match) ==
  IF ~q_num_match.ok /\ opt.key = NoKey /\ ~qnum_only.ok
  THEN OcrFilter(QUESTION_OCR_SPACED_RE(line))
  ELSE NoMatch

\* the OCR-spaced header of step 5
OcrHeader(st, line, opt, qnum_only, q_num_match) ==
  IF st.state = "IDLE" /\ ~q_num_match.ok /\ opt.key = NoKey /\ ~qnum_only.ok
  THEN OcrFilter(QUESTION_OCR_SPACED_RE(line))
  ELSE NoMatch

\* the number-only header test of the transitions: "if qnum_only and not opt_key"
NumberOnlyHeader(qnum_only, opt) == qnum_only.ok /\ opt.key = NoKey

\* the chain of transitions at the end of the loop body
Transitions(s3, line, y_top, line_x0, opt, qnum_only, q_num_match, q_ocr_match) ==
  IF NumberOnlyHeader(qnum_only, opt)
  THEN StartQuestion(s3, qnum_only.g1, << >>, y_top, "header_number_only")
  ELSE IF q_num_match.ok /\ Strip(q_num_match.g2) # << >>
  THEN StartQuestion(s3, q_num_match.g1, Strip(q_num_match.g2), y_top, "header_numeric")
  ELSE IF q_ocr_match.ok
  THEN StartQuestion(s3, RemoveSpaces(q_ocr_match.g1), Strip(q_ocr_match.g2), y_top,
                     "header_ocr")
  ELSE IF opt.key # NoKey /\ s3.current_q # NoQuestion
  THEN OptionLine(s3, opt, y_top, line_x0)
  ELSE IF s3.current_q # NoQuestion
  THEN ContinuationLine(s3, line, line_x0)
  ELSE [s3 EXCEPT !.event = "ignored"]

\* step 5, then the transitions
WithNumeric(s3, line, y_top, line_x0, opt, qnum_only, q_num_match) ==
  Transitions(s3, line, y_top, line_x0, opt, qnum_only, q_num_match,
              OcrHeader(s3, line, opt, qnum_only, q_num_match))

\* steps 3 and 4 for a line whose option interpretation is opt
WithOption(s3, line, y_top, line_x0, opt) ==
  WithNumeric(s3, line, y_top, line_x0, opt, QNUM_ONLY_RE(line),
              NumericHeader(s3, line, opt))

\* step 1: the two Roman header tests, which end the iteration when they match
RomanOrRest(s3, line, y_top, line_x0, q_rom_match, qrom_only) ==
  IF q_rom_match.ok /\ q_rom_match.g1 # << >>
  THEN StartQuestion(s3, UpperSeq(q_rom_match.g1), Strip(q_rom_match.g2), y_top,
                     "header_roman")
  ELSE IF qrom_only.ok /\ qrom_only.g1 # << >>
  THEN StartQuestion(s3, UpperSeq(qrom_only.g1), << >>, y_top, "header_roman_only")
  ELSE WithOption(s3, line, y_top, line_x0, try_option(line, InQuestionCtx(s3)))

\* a line that did not stop the parser and is no noise
Classify(s3, line, y_top, line_x0) ==
  RomanOrRest(s3, line, y_top, line_x0, QUESTION_ROMAN_RE(line), QNUM_ROMAN_ONLY_RE(line))

\* faulty variant: the Y-extent is tracked before the noise test
AfterStopTrackingNoise(st, s2, line, y_top, y_bot, line_x0) ==
  IF s2.stopped THEN (IF st.stopped THEN [st EXCEPT !.event = "after_stop"] ELSE s2)
  ELSE IF NOISE_RE(line) THEN [TrackYEnd(s2, y_bot) EXCEPT !.event = "noise"]
  ELSE Classify(TrackYEnd(s2, y_bot), line, y_top, line_x0)

\* the loop body after the hard stop: st before the line, s2 after the stop tests
AfterStop(st, s2, line, y_top, y_bot, line_x0) ==
  IF s2.stopped THEN (IF st.stopped THEN [st EXCEPT !.event = "after_stop"] ELSE s2)
  ELSE IF NOISE_RE(line) THEN [s2 EXCEPT !.event = "noise"]
  ELSE Classify(TrackYEnd(s2, y_bot), line, y_top, line_x0)

\* the loop body for the stripped line
ParseStripped(st, line, y_top, y_bot, line_x0) ==
  IF line = << >> THEN [st EXCEPT !.event = "blank"]
  ELSE AfterStop(st, StopCheck(st, line), line, y_top, y_bot, line_x0)

\* one iteration of "for vl in visual_lines"
ParseLine(st, vl) == ParseStripped(st, Strip(vl.text), vl.top, vl.bottom, vl.x0)

RECURSIVE ParseFrom(_, _, _)
ParseFrom(st, visual_lines, i) ==
  IF i > Len(visual_lines) THEN st
  ELSE ParseFrom(ParseLine(st, visual_lines[i]), visual_lines, i + 1)

\* parse_questions_from_lines: the loop, then the final _finish_question()
parse_questions_from_lines(visual_lines) ==
  finish_question(ParseFrom(ParserInit, visual_lines, 1)).questions


\* ------------------------------------------------------------------------
\* Input lines
\* ------------------------------------------------------------------------

\* bare-number headers; the first two have the shape of a numeric option too
L_1dotP == <<"1", ".", " ", "P">>
L_2parR == <<"2", ")", " ", "R">>
L_5dotP == <<"5", ".", " ", "P">>
L_200dotP == <<"2", "0", "0", ".", " ", "P">>
L_201dotP == <<"2", "0", "1", ".", " ", "P">>
\* prefixed headers, with and without a body
L_Q5P == <<"Q", "5", " ", "P">>
L_Q201P == <<"Q", "2", "0", "1", " ", "P">>
L_Q5answer == <<"Q", "5", " ", "a", "n", "s", "w", "e", "r">>
L_Qdot7 == <<"Q", ".", "7">>
L_Qdot999 == <<"Q", ".", "9", "9", "9">>
L_Q7 == <<"Q", "7">>
L_Que3 == <<"Q", "u", "e", " ", "3">>
\* digits with no prefix and no delimiter
L_2P == <<"2", " ", "P">>
L_12 == <<"1", "2">>
L_ocr21P == <<"2", " ", "1", " ", "P">>
L_ocr202P == <<"2", " ", "0", " ", "2", " ", "P">>
\* Roman headers
L_IIdotP == <<"I", "I", ".", " ", "P">>
L_V == <<"V">>
\* option labels
L_AparP == <<"A", ")", " ", "P">>
L_Aparw == <<"A", ")", " ", "w">>
L_BparR == <<"B", ")", " ", "R">>
L_Aalone == <<"(", "A", ")">>
L_iiP == <<"(", "i", "i", ")", " ", "P">>
L_dashR == <<"-", " ", "R">>
\* continuations
L_T == <<"T">>
L_0 == <<"0">>
\* stop markers and noise
L_hints == <<"h", "i", "n", "t", "s">>
L_Tsolution == <<"T", " ", "s", "o", "l", "u", "t", "i", "o", "n", ":">>
L_noise == <<"3", "/", "4">>
\* a numbered line that is a stop marker
L_1dotSolution == <<"1", ".", " ", "s", "o", "l", "u", "t", "i", "o", "n", ":">>

\* the geometry of a line: its top relative to the line before, height, x0
LineStep == 12
LineHeight == 8
TallHeight == 30
Indent == 12

GNormal == [dtop |-> LineStep, height |-> LineHeight, x0 |-> 0]
\* a line whose bottom lies below the top of the next line, indented
GTall == [dtop |-> LineStep, height |-> TallHeight, x0 |-> Indent]
\* a line of no height at the top of the line before
GFlat == [dtop |-> 0, height |-> 0, x0 |-> 0]

\* the documents: each is written in one alphabet of lines
Corpora ==
  << [texts |-> {L_1dotP, L_2parR, L_5dotP, L_AparP, L_BparR, L_T, L_200dotP},
      geoms |-> {GNormal}],
     [texts |-> {L_5dotP, L_AparP, L_T, L_hints, L_Tsolution, L_noise, L_IIdotP},
      geoms |-> {GNormal}],
     [texts |-> {L_201dotP, L_Q201P, L_Qdot999, L_Qdot7, L_ocr202P, L_Q5P, L_AparP, L_Q5answer},
      geoms |-> {GNormal}],
     [texts |-> {L_2P, L_12, L_ocr21P, L_Q7, L_Qdot7, L_Que3, L_AparP, L_T},
      geoms |-> {GNormal}],
     [texts |-> {L_5dotP, L_Aalone, L_Aparw, L_AparP, L_dashR, L_iiP, L_0, L_V},
      geoms |-> {GNormal}],
     [texts |-> {L_5dotP, L_AparP, L_T},
      geoms |-> {GNormal, GTall, GFlat}],
     [texts |-> {L_5dotP, L_2parR, L_1dotSolution, L_T},
      geoms |-> {GNormal}] >>

MaxLines == 4

\* ------------------------------------------------------------------------
\* parse_questions_from_lines as a state machine
\* ------------------------------------------------------------------------

VARIABLES
  corpus,           \* the alphabet the document is written in
  visual_lines,     \* the lines consumed so far
  questions, current_q, state, stopped, last_option_key, last_option_x0,
  event,            \* what the last line was taken for
  header_at,        \* history: the indices of the lines that started a question
  all_images,       \* the image regions collected from the pages
  attached,         \* history: per image handled, the question it went to (0: none)
  promoted,         \* the number of questions the promotion pass has handled
  shots,            \* history: per question handled by the screenshot pass, its slices
  full_text,        \* the argument of parse_questions_from_text
  db,               \* questions.db: the questions table
  tmp_files,        \* the temporary files that exist
  req,              \* per upload request: the handler's position and locals
  running,          \* the request the event loop is running (0: none)
  read_back,        \* the last answer of GET /api/questions
  chars,            \* the glyphs of the page the line reconstructor is given
  regions,          \* the raster images and vector figures of a page
  saved,            \* the regions the image collector accepted
  meta,             \* page_meta while the pages are collected (with history)
  offset,           \* y_offset while the pages are collected
  pc

vars == <<corpus, visual_lines, questions, current_q, state, stopped,
          last_option_key, last_option_x0, event, header_at,
          all_images, attached, promoted, shots, full_text,
          db, tmp_files, req, running, read_back, chars, regions, saved,
          meta, offset, pc>>

UploadVars == <<db, tmp_files, req, running, read_back>>

PageVars == <<chars, regions, saved, meta, offset>>

\* no page given to the line reconstructor or to the image collector
NoPage ==
  /\ chars = << >>
  /\ regions = [images |-> << >>, figures |-> << >>]
  /\ saved = << >>
  /\ meta = << >>
  /\ offset = 0

\* no table, no temporary file, no request
NoUploads ==
  /\ db = [exists |-> FALSE, rows |-> << >>]
  /\ tmp_files = {}
  /\ req = << >>
  /\ running = 0
  /\ read_back = << >>

\* the parser's local variables as one record
Locals == [ questions       |-> questions,
            current_q       |-> current_q,
            state           |-> state,
            stopped         |-> stopped,
            last_option_key |-> last_option_key,
            last_option_x0  |-> last_option_x0,
            event           |-> event ]

SetLocals(st) ==
  /\ questions' = st.questions
  /\ current_q' = st.current_q
  /\ state' = st.state
  /\ stopped' = st.stopped
  /\ last_option_key' = st.last_option_key
  /\ last_option_x0' = st.last_option_x0
  /\ event' = st.event

LastTop == IF visual_lines = << >> THEN 0 ELSE visual_lines[Len(visual_lines)].top

\* the next line of the document: tops ascend and top <= bottom
VisualLine(text, g) ==
  [ text   |-> text,
    top    |-> LastTop + g.dtop,
    bottom |-> LastTop + g.dtop + g.height,
    x0     |-> g.x0 ]

Init ==
  /\ corpus \in 1..Len(Corpora)
  /\ visual_lines = << >>
  /\ questions = ParserInit.questions
  /\ current_q = ParserInit.current_q
  /\ state = ParserInit.state
  /\ stopped = ParserInit.stopped
  /\ last_option_key = ParserInit.last_option_key
  /\ last_option_x0 = ParserInit.last_option_x0
  /\ event = ParserInit.event
  /\ header_at = << >>
  /\ all_images = << >>
  /\ attached = << >>
  /\ promoted = 0
  /\ shots = << >>
  /\ full_text = << >>
  /\ NoUploads
  /\ NoPage
  /\ pc = "loop"

\* the events of the lines that call _make_question
HeaderEvents == {"header_roman", "header_roman_only", "header_number_only",
                 "header_numeric", "header_ocr"}

\* one iteration of the loop over visual_lines
ReadLine(vl) ==
  /\ pc = "loop"
  /\ Len(visual_lines) < MaxLines
  /\ visual_lines' = Append(visual_lines, vl)
  /\ SetLocals(ParseLine(Locals, vl))
  /\ header_at' = IF ParseLine(Locals, vl).event \in HeaderEvents
                  THEN Append(header_at, Len(visual_lines) + 1)
                  ELSE header_at
  /\ UNCHANGED <<corpus, all_images, attached, promoted, shots, full_text, pc, UploadVars, PageVars>>

\* input exhausted: the final _finish_question() and the return
EndOfInput ==
  /\ pc = "loop"
  /\ SetLocals([finish_question(Locals) EXCEPT !.event = "end"])
  /\ pc' = "done"
  /\ UNCHANGED <<corpus, visual_lines, header_at, all_images, attached, promoted,
                 shots, full_text, UploadVars, PageVars>>

Next ==
  \/ \E text \in Corpora[corpus].texts, g \in Corpora[corpus].geoms :
       ReadLine(VisualLine(text, g))
  \/ EndOfInput

Spec == Init /\ [][Next]_vars


\* ------------------------------------------------------------------------
\* parse_with_diagram_info: attachment of images and per-option promotion
\* ------------------------------------------------------------------------

IMAGE_Y_TOLERANCE == 150
OptionTopMargin == 20
MIN_DIM == 40

OptionImageKeys == <<"option_a_image", "option_b_image", "option_c_image", "option_d_image">>

Abs(x) == IF x < 0 THEN 0 - x ELSE x
Min(a, b) == IF a < b THEN a ELSE b

\* twice img_center_y: the centre (top + bottom) / 2.0 may be a half
Centre2(img) == img.top + img.bottom

\* twice min(abs(c - y_start), abs(c - y_end))
EdgeDist2(q, cy2) == Min(Abs(cy2 - 2 * q.y_start), Abs(cy2 - 2 * q.y_end))

\* faulty variant: the distance to the nearer endpoint inside the question too
RangeDist2Edge(q, cy2) == EdgeDist2(q, cy2)

\* twice the dist of the first loop
RangeDist2(q, cy2) ==
  IF 2 * q.y_start <= cy2 /\ cy2 <= 2 * q.y_end THEN 0 ELSE EdgeDist2(q, cy2)

\* range_top <= img_center_y <= range_bottom
InRange(q, cy2) ==
  /\ 2 * (q.y_start - IMAGE_Y_TOLERANCE) <= cy2
  /\ cy2 <= 2 * (q.y_end + IMAGE_Y_TOLERANCE)

RECURSIVE NearestInRange(_, _, _, _, _)
\* the first loop over the questions; best = 0 is best_q = None (best_dist = inf)
NearestInRange(qs, cy2, k, best, best_dist) ==
  IF k > Len(qs) THEN best
  ELSE IF InRange(qs[k], cy2) /\ (best = 0 \/ RangeDist2(qs[k], cy2) < best_dist)
  THEN NearestInRange(qs, cy2, k + 1, k, RangeDist2(qs[k], cy2))
  ELSE NearestInRange(qs, cy2, k + 1, best, best_dist)

RECURSIVE NearestAny(_, _, _, _, _)
\* the loop under "if best_q is None"
NearestAny(qs, cy2, k, best, best_dist) ==
  IF k > Len(qs) THEN best
  ELSE IF best = 0 \/ EdgeDist2(qs[k], cy2) < best_dist
  THEN NearestAny(qs, cy2, k + 1, k, EdgeDist2(qs[k], cy2))
  ELSE NearestAny(qs, cy2, k + 1, best, best_dist)

\* faulty variant: the first question takes every image
best_q_first(qs, cy2) == IF qs = << >> THEN 0 ELSE 1

\* the index of best_q, 0 when there is no question
best_q(qs, cy2) ==
  IF NearestInRange(qs, cy2, 1, 0, 0) # 0
  THEN NearestInRange(qs, cy2, 1, 0, 0)
  ELSE NearestAny(qs, cy2, 1, 0, 0)

\* the body of the loop "for img in all_images"
attach_image(qs, img) ==
  IF best_q(qs, Centre2(img)) = 0 THEN qs
  ELSE [qs EXCEPT ![best_q(qs, Centre2(img))] =
          [@ EXCEPT !.has_diagram = 1,
                    !.image_path = IF @ = None THEN img.path
                                   ELSE @ \o <<",">> \o img.path]]

RECURSIVE Split(_, _)
\* (acc + s).split(","), acc being the piece in progress
Split(s, acc) ==
  IF s = << >> THEN <<acc>>
  ELSE IF Head(s) = "," THEN <<acc>> \o Split(Tail(s), << >>)
  ELSE Split(Tail(s), Append(acc, Head(s)))

RECURSIVE Join(_)
\* ",".join(paths)
Join(paths) ==
  IF paths = << >> THEN << >>
  ELSE IF Len(paths) = 1 THEN paths[1]
  ELSE paths[1] \o <<",">> \o Join(Tail(paths))

\* sorted(opt_y.keys())
letters_sorted(opt_y) == SelectSeq(Letters, LAMBDA l : l \in DOMAIN opt_y)

\* opt_ranges[letter] of the i-th letter
opt_range(q, ls, i) ==
  [ y_s |-> q.opt_y[ls[i]],
    y_e |-> IF i + 1 <= Len(ls) THEN q.opt_y[ls[i + 1]]
            ELSE q.y_end + IMAGE_Y_TOLERANCE ]

\* the index in 1..4 of matched_letter, 0 for None
matched_letter(q, cy2) ==
  LET ls == letters_sorted(q.opt_y)
      hits == {i \in 1..Len(ls) :
                 /\ 2 * (opt_range(q, ls, i).y_s - OptionTopMargin) <= cy2
                 /\ cy2 <= 2 * opt_range(q, ls, i).y_e}
  IN IF hits = {} THEN 0
     ELSE LET i == CHOOSE i \in hits : \A j \in hits : i <= j
          IN CHOOSE n \in 1..4 : Letters[n] = ls[i]

\* path_to_coords.get(path): the positions of the images with that path
path_to_coords(images, path) == {i \in 1..Len(images) : images[i].path = path}

\* faulty variant: a slot that is set is taken again
PromotionSlotOverwriting(q, images, path) ==
  IF path_to_coords(images, path) = {} THEN 0
  ELSE LET i == CHOOSE i \in path_to_coords(images, path) :
                  \A j \in path_to_coords(images, path) : j <= i
       IN matched_letter(q, Centre2(images[i]))

\* the slot a path is promoted to, 0 when it stays at the question
PromotionSlot(q, images, path) ==
  IF path_to_coords(images, path) = {} THEN 0
  ELSE LET i == CHOOSE i \in path_to_coords(images, path) :
                  \A j \in path_to_coords(images, path) : j <= i
       IN IF matched_letter(q, Centre2(images[i])) = 0 THEN 0
          ELSE IF Falsy(q[OptionImageKeys[matched_letter(q, Centre2(images[i]))]])
          THEN matched_letter(q, Centre2(images[i]))
          ELSE 0

RECURSIVE PromotePaths(_, _, _, _)
\* the loop "for path in paths" and the assignment of q["image_path"]
PromotePaths(q, images, paths, remaining) ==
  IF paths = << >>
  THEN [q EXCEPT !.image_path = IF remaining = << >> THEN None ELSE Join(remaining)]
  ELSE IF PromotionSlot(q, images, Head(paths)) # 0
  THEN PromotePaths([q EXCEPT ![OptionImageKeys[PromotionSlot(q, images, Head(paths))]]
                                 = Head(paths)],
                    images, Tail(paths), remaining)
  ELSE PromotePaths(q, images, Tail(paths), Append(remaining, Head(paths)))

\* faulty variant: a question whose images all went to option slots loses
\* has_diagram
promote_options_clearing(q, images) ==
  IF DOMAIN q.opt_y = {} \/ Falsy(q.image_path) THEN q
  ELSE IF PromotePaths(q, images, Split(q.image_path, << >>), << >>).image_path = None
  THEN [PromotePaths(q, images, Split(q.image_path, << >>), << >>) EXCEPT !.has_diagram = 0]
  ELSE PromotePaths(q, images, Split(q.image_path, << >>), << >>)

\* the body of the loop "for q in questions" of the second pass
promote_options(q, images) ==
  IF DOMAIN q.opt_y = {} \/ Falsy(q.image_path) THEN q
  ELSE PromotePaths(q, images, Split(q.image_path, << >>), << >>)

\* --- documents and image regions of the pipeline ---

\* lines one under the other
PageLines(texts) ==
  [i \in 1..Len(texts) |->
     [text |-> texts[i], top |-> i * LineStep, bottom |-> i * LineStep + LineHeight,
      x0 |-> 0]]

PageHeight == 500
ShortPageHeight == 40
PageGap == 20

\* a page: its height and the texts of its lines
Page(height, texts) == [height |-> height, lines |-> PageLines(texts)]

\* documents of one long page; a question over two and over three short
\* pages; option labels out of alphabetical order
AttachDocs ==
  << <<Page(PageHeight, <<L_5dotP, L_AparP, L_BparR>>)>>,
     <<Page(PageHeight, <<L_5dotP, L_AparP, L_Qdot7, L_T, L_BparR>>)>>,
     <<Page(PageHeight, <<L_5dotP, L_T>>)>>,
     <<Page(PageHeight, <<L_T>>)>>,
     <<Page(ShortPageHeight, <<L_T, L_5dotP>>), Page(ShortPageHeight, <<L_AparP, L_BparR>>)>>,
     <<Page(ShortPageHeight, <<L_5dotP>>), Page(ShortPageHeight, <<L_T>>),
       Page(ShortPageHeight, <<L_AparP, L_Qdot7>>)>>,
     <<Page(PageHeight, <<L_5dotP, L_BparR, L_AparP>>)>> >>

RECURSIVE y_offset(_, _)
\* y_offset when page i of the document is reached
y_offset(doc, i) ==
  IF i = 1 THEN 0 ELSE y_offset(doc, i - 1) + doc[i - 1].height + PageGap

\* page_meta after pass 1
page_meta(doc) ==
  [i \in 1..Len(doc) |->
     [y_offset |-> y_offset(doc, i), height |-> doc[i].height, page_num |-> i]]

\* the lines of page i with y_offset added to top and bottom
OffsetLines(doc, i) ==
  [k \in 1..Len(doc[i].lines) |->
     [doc[i].lines[k] EXCEPT !.top = @ + y_offset(doc, i),
                             !.bottom = @ + y_offset(doc, i)]]

RECURSIVE all_visual_lines(_, _)
\* all_visual_lines after pass 1 over the pages 1..n
all_visual_lines(doc, n) ==
  IF n = 0 THEN << >> ELSE all_visual_lines(doc, n - 1) \o OffsetLines(doc, n)

\* the region lies on one of the pages
OnAPage(doc, box) ==
  \E i \in 1..Len(doc) :
    /\ y_offset(doc, i) <= box.top
    /\ box.bottom <= y_offset(doc, i) + doc[i].height

\* regions at least MIN_DIM high: over the options, at the end of the page,
\* far below the text
ImageTops == {0, 13, 20, 60, 400}
ImageBoxes == {[top |-> t, bottom |-> t + h] : t \in ImageTops, h \in {MIN_DIM, MIN_DIM + 5}}

MaxImages == 2

ImageNames == <<"1", "2", "3", "4", "5", "6", "7", "8", "9">>

\* the web path of the i-th image saved
ImagePath(i) == <<"/", "i", "m", "g", ImageNames[i], ".", "p", "n", "g">>

ImageLists(doc) ==
  UNION { {[i \in 1..n |-> [path |-> ImagePath(i), top |-> bs[i].top, bottom |-> bs[i].bottom]] :
             bs \in [1..n -> {b \in ImageBoxes : OnAPage(doc, b)}]} : n \in 0..MaxImages }

RECURSIVE HeadersFrom(_, _, _)
\* the indices of the lines of a document that start a question
HeadersFrom(st, lines, i) ==
  IF i > Len(lines) THEN << >>
  ELSE IF ParseLine(st, lines[i]).event \in HeaderEvents
  THEN <<i>> \o HeadersFrom(ParseLine(st, lines[i]), lines, i + 1)
  ELSE HeadersFrom(ParseLine(st, lines[i]), lines, i + 1)

\* the state after pass 1 and parse_questions_from_lines(all_visual_lines)
InitAttach ==
  /\ corpus \in 1..Len(AttachDocs)
  /\ visual_lines = all_visual_lines(AttachDocs[corpus], Len(AttachDocs[corpus]))
  /\ questions = parse_questions_from_lines(visual_lines)
  /\ current_q = NoQuestion
  /\ state = ParseFrom(ParserInit, visual_lines, 1).state
  /\ stopped = ParseFrom(ParserInit, visual_lines, 1).stopped
  /\ last_option_key = NoKey
  /\ last_option_x0 = 0
  /\ event = "end"
  /\ header_at = HeadersFrom(ParserInit, visual_lines, 1)
  /\ all_images \in ImageLists(AttachDocs[corpus])
  /\ attached = << >>
  /\ promoted = 0
  /\ shots = << >>
  /\ full_text = << >>
  /\ NoUploads
  /\ NoPage
  /\ pc = "attach"

ParserVars == <<corpus, visual_lines, current_q, state, stopped,
                last_option_key, last_option_x0, event, header_at, full_text,
                UploadVars, PageVars>>

\* first pass, one image
AttachImage ==
  /\ pc = "attach"
  /\ Len(attached) < Len(all_images)
  /\ questions' = attach_image(questions, all_images[Len(attached) + 1])
  /\ attached' = Append(attached, best_q(questions, Centre2(all_images[Len(attached) + 1])))
  /\ UNCHANGED <<ParserVars, all_images, promoted, shots, pc>>

\* first pass over
AttachDone ==
  /\ pc = "attach"
  /\ Len(attached) = Len(all_images)
  /\ pc' = "promote"
  /\ UNCHANGED <<ParserVars, questions, all_images, attached, promoted, shots>>

\* second pass, one question
PromoteQuestion ==
  /\ pc = "promote"
  /\ promoted < Len(questions)
  /\ questions' = [questions EXCEPT ![promoted + 1] = promote_options(@, all_images)]
  /\ promoted' = promoted + 1
  /\ UNCHANGED <<ParserVars, all_images, attached, shots, pc>>

\* second pass over
PromoteDone ==
  /\ pc = "promote"
  /\ promoted = Len(questions)
  /\ pc' = "promoted"
  /\ UNCHANGED <<ParserVars, questions, all_images, attached, promoted, shots>>

\* --- _crop_question_screenshot and the screenshot pass ---

PAD_TOP == 6
Resolution == 150

Max(a, b) == IF a > b THEN a ELSE b

overlap_start(pm, y_start_global) == Max(y_start_global - PAD_TOP, pm.y_offset)
overlap_end(pm, y_end_global) == Min(y_end_global, pm.y_offset + pm.height)

\* the page contributes a slice
Contributes(pm, y_start_global, y_end_global) ==
  /\ overlap_end(pm, y_end_global) > overlap_start(pm, y_start_global)
  /\ Min(pm.height, overlap_end(pm, y_end_global) - pm.y_offset)
       > Max(0, overlap_start(pm, y_start_global) - pm.y_offset)

\* faulty variant: the crop box in document coordinates
Slice_global(pm, y_start_global, y_end_global) ==
  [ page_num    |-> pm.page_num,
    local_start |-> overlap_start(pm, y_start_global),
    local_end   |-> overlap_end(pm, y_end_global),
    height      |-> ((overlap_end(pm, y_end_global) - overlap_start(pm, y_start_global))
                     * Resolution) \div 72 ]

\* the crop of one page in page-local coordinates, rendered at 150 dpi
Slice(pm, y_start_global, y_end_global) ==
  [ page_num    |-> pm.page_num,
    local_start |-> Max(0, overlap_start(pm, y_start_global) - pm.y_offset),
    local_end   |-> Min(pm.height, overlap_end(pm, y_end_global) - pm.y_offset),
    height      |-> ((Min(pm.height, overlap_end(pm, y_end_global) - pm.y_offset)
                       - Max(0, overlap_start(pm, y_start_global) - pm.y_offset))
                     * Resolution) \div 72 ]

RECURSIVE Slices(_, _, _, _, _)
\* the loop "for pm in page_meta"; the crop of page `failing` raises
Slices(pms, i, y_start_global, y_end_global, failing) ==
  IF i > Len(pms) THEN << >>
  ELSE IF Contributes(pms[i], y_start_global, y_end_global) /\ pms[i].page_num # failing
  THEN <<Slice(pms[i], y_start_global, y_end_global)>>
         \o Slices(pms, i + 1, y_start_global, y_end_global, failing)
  ELSE Slices(pms, i + 1, y_start_global, y_end_global, failing)

RECURSIVE Paste(_, _)
\* the y_cur at which each slice is pasted, then the final y_cur
Paste(slices, y_cur) ==
  IF slices = << >> THEN <<y_cur>>
  ELSE <<y_cur>> \o Paste(Tail(slices), y_cur + Head(slices).height)

\* the web path of the screenshot of question q_idx
QshotPath(q_idx) == <<"/", "q", "s", "h", "o", "t", ImageNames[q_idx], ".", "p", "n", "g">>

\* _crop_question_screenshot: the slices, the canvas height, the pastes and
\* the path returned (None on failure)
crop_question_screenshot(pms, y_start_global, y_end_global, q_idx, failing, save_ok) ==
  [ slices |-> Slices(pms, 1, y_start_global, y_end_global, failing),
    pastes |-> Paste(Slices(pms, 1, y_start_global, y_end_global, failing), 0),
    path   |-> IF Slices(pms, 1, y_start_global, y_end_global, failing) # << >> /\ save_ok
               THEN QshotPath(q_idx) ELSE None,
    failing |-> failing,      \* history: the page whose crop raised (0: none)
    save_ok |-> save_ok ]     \* history: the canvas could be saved

\* faulty variant: the bottom edge is not clamped
clamped_y_end_own(qs, idx) == qs[idx].y_end

\* "Clamp bottom edge to next question's start"
clamped_y_end(qs, idx) ==
  IF idx + 1 <= Len(qs) THEN Min(qs[idx].y_end, qs[idx + 1].y_start) ELSE qs[idx].y_end

\* faulty variant: a question with a screenshot is flagged as having a diagram
set_question_image_flagging(q, path) ==
  [q EXCEPT !.has_diagram = IF path = None THEN @ ELSE 1] @@ [question_image |-> path]

\* q["question_image"] = ...
set_question_image(q, path) == q @@ [question_image |-> path]

\* screenshot pass, one question
ScreenshotQuestion(failing, save_ok) ==
  /\ pc = "promoted"
  /\ Len(shots) < Len(questions)
  /\ shots' = Append(shots,
       crop_question_screenshot(page_meta(AttachDocs[corpus]),
                                questions[Len(shots) + 1].y_start,
                                clamped_y_end(questions, Len(shots) + 1),
                                Len(shots) + 1, failing, save_ok))
  /\ questions' = [questions EXCEPT ![Len(shots) + 1] = set_question_image(@, shots'[Len(shots')].path)]
  /\ UNCHANGED <<ParserVars, all_images, attached, promoted, pc>>

\* screenshot pass over
ScreenshotDone ==
  /\ pc = "promoted"
  /\ Len(shots) = Len(questions)
  /\ pc' = "cleanup"
  /\ UNCHANGED <<ParserVars, questions, all_images, attached, promoted, shots>>

\* q.pop(key, None) for each of the keys
Pop(q, keys) == [f \in DOMAIN q \ keys |-> q[f]]

\* "Clean up internal metadata" and the return
CleanUp ==
  /\ pc = "cleanup"
  /\ questions' = [k \in 1..Len(questions) |->
                     Pop(questions[k], {"num", "y_start", "y_end", "opt_y"})]
  /\ pc' = "returned"
  /\ UNCHANGED <<ParserVars, all_images, attached, promoted, shots>>

NextAttach ==
  \/ AttachImage
  \/ AttachDone
  \/ PromoteQuestion
  \/ PromoteDone
  \/ \E failing \in 0..Len(AttachDocs[corpus]), save_ok \in BOOLEAN :
       ScreenshotQuestion(failing, save_ok)
  \/ ScreenshotDone
  \/ CleanUp

SpecAttach == InitAttach /\ [][NextAttach]_vars

\* --- the first pass on its own: one image, questions at chosen extents ---

\* extents [_y_start, _y_end]: a header alone, short and long questions, with
\* gaps of 150, 300 and 400 points between them
NearExtents ==
  { <<200, 200>>, <<200, 250>>, <<200, 600>>, <<250, 400>>, <<550, 600>>, <<600, 600>> }

MaxNearQuestions == 3

\* the records in document order: _y_start does not decrease
NearQuestionLists ==
  UNION { {[k \in 1..n |-> [make_question(<<ImageNames[k]>>, <<"P">>, es[k][1])
                               EXCEPT !.y_end = es[k][2]]] :
             es \in {f \in [1..n -> NearExtents] :
                        \A k \in 1..(n - 1) : f[k][1] <= f[k + 1][1]}} :
          n \in 1..MaxNearQuestions }

\* centres of the image: above, inside, between and below the questions, at
\* 150 points from an end and beyond
NearCentres == {30, 50, 225, 325, 400, 425, 475, 750, 770, 800}

NearImages ==
  { <<[path |-> ImagePath(1), top |-> c - (MIN_DIM \div 2), bottom |-> c + (MIN_DIM \div 2)]>> :
      c \in NearCentres }

InitNearest ==
  /\ corpus = 0
  /\ visual_lines = << >>
  /\ questions \in NearQuestionLists
  /\ current_q = NoQuestion
  /\ state = "IN_QUESTION"
  /\ stopped = FALSE
  /\ last_option_key = NoKey
  /\ last_option_x0 = 0
  /\ event = "end"
  /\ header_at = << >>
  /\ all_images \in NearImages
  /\ attached = << >>
  /\ promoted = 0
  /\ shots = << >>
  /\ full_text = << >>
  /\ NoUploads
  /\ NoPage
  /\ pc = "attach"

NextNearest == AttachImage \/ AttachDone

SpecNearest == InitNearest /\ [][NextNearest]_vars

\* --- parse_questions_from_text ---

RECURSIVE splitlines(_, _)
\* (acc + s).splitlines(), acc being the line in progress
splitlines(s, acc) ==
  IF s = << >> THEN (IF acc = << >> THEN << >> ELSE <<acc>>)
  ELSE IF Head(s) = "\n" THEN <<acc>> \o splitlines(Tail(s), << >>)
  ELSE splitlines(Tail(s), Append(acc, Head(s)))

\* the lines with synthetic Y coordinates (enumerate counts from 0)
fake_lines(full) ==
  [k \in 1..Len(splitlines(full, << >>)) |->
     [text |-> splitlines(full, << >>)[k], top |-> k - 1, bottom |-> k, x0 |-> 0]]

parse_questions_from_text(full) ==
  [k \in 1..Len(parse_questions_from_lines(fake_lines(full))) |->
     Pop(parse_questions_from_lines(fake_lines(full))[k], {"num", "y_start", "y_end"})]

MaxTextLines == 3

TextLines == {L_5dotP, L_AparP, L_BparR, L_T, L_Qdot7, << >>}

RECURSIVE JoinLines(_)
JoinLines(ls) ==
  IF ls = << >> THEN << >>
  ELSE IF Len(ls) = 1 THEN ls[1]
  ELSE ls[1] \o <<"\n">> \o JoinLines(Tail(ls))

Texts == UNION { {JoinLines(ls) : ls \in [1..n -> TextLines]} : n \in 0..MaxTextLines }

InitText ==
  /\ corpus = 0
  /\ full_text \in Texts
  /\ visual_lines = << >>
  /\ questions = << >>
  /\ current_q = NoQuestion
  /\ state = "IDLE"
  /\ stopped = FALSE
  /\ last_option_key = NoKey
  /\ last_option_x0 = 0
  /\ event = "start"
  /\ header_at = << >>
  /\ all_images = << >>
  /\ attached = << >>
  /\ promoted = 0
  /\ shots = << >>
  /\ NoUploads
  /\ NoPage
  /\ pc = "text"

\* the call and the return of parse_questions_from_text
ParseText ==
  /\ pc = "text"
  /\ visual_lines' = fake_lines(full_text)
  /\ questions' = parse_questions_from_text(full_text)
  /\ header_at' = HeadersFrom(ParserInit, fake_lines(full_text), 1)
  /\ state' = ParseFrom(ParserInit, fake_lines(full_text), 1).state
  /\ stopped' = ParseFrom(ParserInit, fake_lines(full_text), 1).stopped
  /\ event' = "end"
  /\ pc' = "returned"
  /\ UNCHANGED <<corpus, current_q, last_option_key, last_option_x0, full_text,
                 all_images, attached, promoted, shots, UploadVars, PageVars>>

NextText == ParseText

SpecText == InitText /\ [][NextText]_vars

\* ------------------------------------------------------------------------
\* The routes: POST /upload (upload_pdf) and GET /api/questions
\* ------------------------------------------------------------------------
\* upload_pdf is a coroutine: the event loop runs one handler at a time and
\* switches only at "await file.read()".

MaxUploads == 2
MaxRecords == 2
MaxTmpNames == 2

Requests == 1..MaxUploads
TmpNames == 1..MaxTmpNames

F_pdf == <<"a", ".", "p", "d", "f">>
F_PDF == <<"A", ".", "P", "D", "F">>
F_txt == <<"a", ".", "t", "x", "t">>
F_pdf_txt == <<"a", ".", "p", "d", "f", ".", "t", "x", "t">>
Filenames == {F_pdf, F_PDF, F_txt, F_pdf_txt}

\* str.endswith
EndsWith(s, suffix) ==
  Len(s) >= Len(suffix) /\ SubSeq(s, Len(s) - Len(suffix) + 1, Len(s)) = suffix

\* file.filename.lower().endswith(".pdf")
IsPdfName(filename) == EndsWith(LowerSeq(filename), <<".", "p", "d", "f">>)

\* the k-th record the extractor returns for upload r
Record(r, k) == [question |-> <<"u", ImageNames[r], "q", ImageNames[k]>>, upload |-> r]

\* what parse_with_diagram_info(tmp_path) can give: an exception or 0..MaxRecords records
ExtractorOutcomes(r) ==
  {[exc |-> TRUE, questions |-> << >>]}
    \cup {[exc |-> FALSE, questions |-> [k \in 1..n |-> Record(r, k)]] : n \in 0..MaxRecords}

\* the rows an earlier upload left
OldRows == <<[question |-> <<"o", "l", "d">>, upload |-> 0, id |-> 1]>>

\* init_db: DROP TABLE IF EXISTS, CREATE TABLE (the AUTOINCREMENT counter goes
\* with the table)
init_db(d) == [exists |-> TRUE, rows |-> << >>]

\* the largest id of the table, 0 when it is empty
MaxId(rows) ==
  IF rows = << >> THEN 0
  ELSE CHOOSE m \in {rows[k].id : k \in 1..Len(rows)} :
         \A k \in 1..Len(rows) : rows[k].id <= m

\* faulty variant: the rows are inserted last first
insert_questions_reversed(d, qs) ==
  [d EXCEPT !.rows = @ \o [k \in 1..Len(qs) |->
                             qs[Len(qs) + 1 - k] @@ [id |-> MaxId(d.rows) + k]]]

\* insert_questions: executemany INSERT, ids by AUTOINCREMENT
insert_questions(d, qs) ==
  [d EXCEPT !.rows = @ \o [k \in 1..Len(qs) |-> qs[k] @@ [id |-> MaxId(d.rows) + k]]]

\* get_all_questions: SELECT ... ORDER BY id; an error without the table
get_all_questions(d) ==
  IF d.exists THEN SortSeq(d.rows, LAMBDA a, b : a.id < b.id)
  ELSE <<[error |-> 500]>>

NewRequest ==
  [ pc |-> "new", tmp_path |-> 0, exc |-> FALSE, questions |-> << >>,
    status |-> 0, count |-> 0, order |-> 0, overlapped |-> FALSE,
    trace |-> << >> ]

InitUpload ==
  /\ corpus = 0
  /\ visual_lines = << >>
  /\ questions = << >>
  /\ current_q = NoQuestion
  /\ state = "IDLE"
  /\ stopped = FALSE
  /\ last_option_key = NoKey
  /\ last_option_x0 = 0
  /\ event = "start"
  /\ header_at = << >>
  /\ all_images = << >>
  /\ attached = << >>
  /\ promoted = 0
  /\ shots = << >>
  /\ full_text = << >>
  /\ pc = "serving"
  /\ NoPage
  /\ db \in {[exists |-> FALSE, rows |-> << >>], [exists |-> TRUE, rows |-> OldRows]}
  /\ tmp_files = {}
  /\ req = [r \in Requests |-> NewRequest]
  /\ running = 0
  /\ read_back = << >>

ExtractorVars == <<corpus, visual_lines, questions, current_q, state, stopped,
                   last_option_key, last_option_x0, event, header_at,
                   all_images, attached, promoted, shots, full_text, pc, PageVars>>

\* faulty variant: the handlers run in threads, any of them at any time
ScheduledThreaded(r) == TRUE

\* the event loop can run the handler of r: it is idle (every other handler
\* has responded or is suspended at its await), or r holds it
Scheduled(r) == running \in {0, r}

\* the names NamedTemporaryFile can pick: none in use, none handed out before
FreshNames == (TmpNames \ tmp_files) \ {req[q].tmp_path : q \in Requests}

\* another handler is between its first step and its response
OthersInFlight(r) == \E q \in Requests \ {r} : req[q].pc \notin {"new", "done"}

\* how many inserts ran so far
InsertsDone == Cardinality({q \in Requests : req[q].order > 0})

\* faulty variant: the table is initialised for an empty result too
AfterExtractInitFirst(exc, qs) ==
  IF exc THEN "raise500" ELSE "init_db"

\* where the handler goes after the try/finally
AfterExtract(exc, qs) ==
  IF exc THEN "raise500" ELSE IF qs = << >> THEN "raise422" ELSE "init_db"

\* the filename check fails: HTTPException 400
Reject(r, filename) ==
  /\ req[r].pc = "new"
  /\ Scheduled(r)
  /\ ~IsPdfName(filename)
  /\ req' = [req EXCEPT ![r].pc = "done", ![r].status = 400,
                        ![r].trace = Append(@, "reject")]
  /\ UNCHANGED <<ExtractorVars, db, tmp_files, running, read_back>>

\* NamedTemporaryFile(delete=False) is created; the handler awaits file.read()
CreateTemp(r, filename, name) ==
  /\ req[r].pc = "new"
  /\ Scheduled(r)
  /\ IsPdfName(filename)
  /\ name \in FreshNames
  /\ tmp_files' = tmp_files \cup {name}
  /\ req' = [req EXCEPT ![r].pc = "reading", ![r].tmp_path = name,
                        ![r].overlapped = OthersInFlight(r),
                        ![r].trace = Append(@, "create")]
  /\ UNCHANGED <<ExtractorVars, db, running, read_back>>

\* file.read() or tmp.write() raises: the with block closes the file and the
\* exception leaves the handler
ReadFails(r) ==
  /\ req[r].pc = "reading"
  /\ Scheduled(r)
  /\ req' = [req EXCEPT ![r].pc = "done", ![r].status = 500,
                        ![r].trace = Append(@, "read_failed")]
  /\ UNCHANGED <<ExtractorVars, db, tmp_files, running, read_back>>

\* the body is read and written; the handler has the loop from here on
WriteBody(r) ==
  /\ req[r].pc = "reading"
  /\ Scheduled(r)
  /\ req' = [req EXCEPT ![r].pc = "parse", ![r].trace = Append(@, "write")]
  /\ running' = r
  /\ UNCHANGED <<ExtractorVars, db, tmp_files, read_back>>

\* questions = parse_with_diagram_info(tmp_path); a missing file raises
Extract(r, outcome) ==
  /\ req[r].pc = "parse"
  /\ Scheduled(r)
  /\ req' = [req EXCEPT ![r].pc = "unlink",
                        ![r].exc = outcome.exc \/ req[r].tmp_path \notin tmp_files,
                        ![r].questions = IF req[r].tmp_path \in tmp_files
                                         THEN outcome.questions ELSE << >>,
                        ![r].trace = Append(@, "extract")]
  /\ UNCHANGED <<ExtractorVars, db, tmp_files, running, read_back>>

\* finally: os.unlink(tmp_path)
Unlink(r) ==
  /\ req[r].pc = "unlink"
  /\ Scheduled(r)
  /\ tmp_files' = tmp_files \ {req[r].tmp_path}
  /\ req' = [req EXCEPT ![r].pc = AfterExtract(req[r].exc, req[r].questions),
                        ![r].trace = Append(@, "unlink")]
  /\ UNCHANGED <<ExtractorVars, db, running, read_back>>

\* HTTPException 500 (extractor exception) or 422 (no question)
RaiseError(r) ==
  /\ req[r].pc \in {"raise500", "raise422"}
  /\ Scheduled(r)
  /\ req' = [req EXCEPT ![r].pc = "done",
                        ![r].status = IF req[r].pc = "raise500" THEN 500 ELSE 422,
                        ![r].trace = Append(@, "raise")]
  /\ running' = 0
  /\ UNCHANGED <<ExtractorVars, db, tmp_files, read_back>>

\* init_db()
InitDb(r) ==
  /\ req[r].pc = "init_db"
  /\ Scheduled(r)
  /\ db' = init_db(db)
  /\ req' = [req EXCEPT ![r].pc = "insert", ![r].trace = Append(@, "init_db")]
  /\ UNCHANGED <<ExtractorVars, tmp_files, running, read_back>>

\* insert_questions(questions)
Insert(r) ==
  /\ req[r].pc = "insert"
  /\ Scheduled(r)
  /\ db' = insert_questions(db, req[r].questions)
  /\ req' = [req EXCEPT ![r].pc = "respond", ![r].order = InsertsDone + 1,
                        ![r].trace = Append(@, "insert")]
  /\ UNCHANGED <<ExtractorVars, tmp_files, running, read_back>>

\* return JSONResponse({"count": len(questions), ...})
Respond(r) ==
  /\ req[r].pc = "respond"
  /\ Scheduled(r)
  /\ req' = [req EXCEPT ![r].pc = "done", ![r].status = 200,
                        ![r].count = Len(req[r].questions),
                        ![r].trace = Append(@, "respond")]
  /\ running' = 0
  /\ UNCHANGED <<ExtractorVars, db, tmp_files, read_back>>

\* GET /api/questions, between two handlers
GetAllQuestions ==
  /\ running = 0
  /\ read_back' = get_all_questions(db)
  /\ UNCHANGED <<ExtractorVars, db, tmp_files, req, running>>

NextUpload ==
  \/ \E r \in Requests, filename \in Filenames : Reject(r, filename)
  \/ \E r \in Requests, filename \in Filenames, name \in TmpNames :
       CreateTemp(r, filename, name)
  \/ \E r \in Requests : ReadFails(r)
  \/ \E r \in Requests : WriteBody(r)
  \/ \E r \in Requests : \E outcome \in ExtractorOutcomes(r) : Extract(r, outcome)
  \/ \E r \in Requests : Unlink(r)
  \/ \E r \in Requests : RaiseError(r)
  \/ \E r \in Requests : InitDb(r)
  \/ \E r \in Requests : Insert(r)
  \/ \E r \in Requests : Respond(r)
  \/ GetAllQuestions

SpecUpload == InitUpload /\ [][NextUpload]_vars

\* ------------------------------------------------------------------------
\* _extract_text_lines: visual lines from the glyphs of a page
\* ------------------------------------------------------------------------
\* A glyph is [text, top, bottom, x0, x1, size], whole points. Averages are
\* kept as fractions in lowest terms.

LINE_Y_TOL == 5

RECURSIVE GCD(_, _)
GCD(a, b) == IF b = 0 THEN a ELSE GCD(b, a % b)

Frac(n, d) == [num |-> n \div GCD(n, d), den |-> d \div GCD(n, d)]
FLess(a, b) == a.num * b.den < b.num * a.den
FMax(a, b) == IF FLess(a, b) THEN b ELSE a
\* (a + b) / 2
FMid(a, b) == Frac(a.num * b.den + b.num * a.den, 2 * a.den * b.den)

RECURSIVE SumSeq(_)
SumSeq(s) == IF s = << >> THEN 0 ELSE Head(s) + SumSeq(Tail(s))

\* the strict order of the sort keys: (top, x0) of a glyph, x0 of a glyph, a number
KeyLess(key, a, b) ==
  CASE key = "top_x0" -> a.top < b.top \/ (a.top = b.top /\ a.x0 < b.x0)
    [] key = "x0" -> a.x0 < b.x0
    [] key = "value" -> a < b

\* sorted(..., key=...): a stable sort
RECURSIVE StableInsert(_, _, _)
StableInsert(sorted, c, key) ==
  IF sorted # << >> /\ KeyLess(key, c, sorted[Len(sorted)])
  THEN Append(StableInsert(SubSeq(sorted, 1, Len(sorted) - 1), c, key),
              sorted[Len(sorted)])
  ELSE Append(sorted, c)

RECURSIVE StableSort(_, _)
StableSort(s, key) ==
  IF s = << >> THEN << >>
  ELSE StableInsert(StableSort(SubSeq(s, 1, Len(s) - 1), key), s[Len(s)], key)

\* key=lambda c: (top, x0)
sorted_chars(cs) == StableSort(cs, "top_x0")

\* key=lambda c: x0
row_sorted(row) == StableSort(row, "x0")

\* faulty variant: a glyph is compared with the glyph before it
RECURSIVE GroupRowsChained(_, _, _, _, _)
GroupRowsChained(sorted, i, current_row, current_top, rows) ==
  IF i > Len(sorted) THEN Append(rows, current_row)
  ELSE IF Abs(sorted[i].top - current_top) <= LINE_Y_TOL
       THEN GroupRowsChained(sorted, i + 1, Append(current_row, sorted[i]),
                             sorted[i].top, rows)
       ELSE GroupRowsChained(sorted, i + 1, <<sorted[i]>>, sorted[i].top,
                             Append(rows, current_row))

\* the Y-rows: a glyph joins the current row when its top is within
\* LINE_Y_TOL of the top of the row's first glyph
RECURSIVE GroupRows(_, _, _, _, _)
GroupRows(sorted, i, current_row, current_top, rows) ==
  IF i > Len(sorted) THEN Append(rows, current_row)
  ELSE IF Abs(sorted[i].top - current_top) <= LINE_Y_TOL
       THEN GroupRows(sorted, i + 1, Append(current_row, sorted[i]), current_top, rows)
       ELSE GroupRows(sorted, i + 1, <<sorted[i]>>, sorted[i].top,
                      Append(rows, current_row))

SizesOf(cs) ==
  [k \in 1..Len(SelectSeq(cs, LAMBDA c : c.size > 0)) |->
     SelectSeq(cs, LAMBDA c : c.size > 0)[k].size]

\* the median of the positive sizes, 12 without any
dominant_size(cs) ==
  IF SizesOf(cs) = << >> THEN 12
  ELSE StableSort(SizesOf(cs), "value")[(Len(SizesOf(cs)) \div 2) + 1]

\* the text of a row: a space before a glyph more than a quarter of its size
\* to the right of the rightmost glyph so far; prev_x1 = -1 stands for None
RECURSIVE RowText(_, _, _, _, _)
RowText(row, i, prev_x1, dominant, text_parts) ==
  IF i > Len(row) THEN text_parts
  ELSE IF row[i].text = "" THEN RowText(row, i + 1, prev_x1, dominant, text_parts)
  ELSE RowText(row, i + 1, Max(Max(prev_x1, 0), row[i].x1), dominant,
               IF prev_x1 # -1
                  /\ 4 * (row[i].x0 - prev_x1)
                       > (IF row[i].size = 0 THEN dominant ELSE row[i].size)
               THEN text_parts \o <<" ", row[i].text>>
               ELSE Append(text_parts, row[i].text))

Sqrt == "sqrt"
Degree == "degree"
SupDigits == <<"sup0", "sup1", "sup2", "sup3", "sup4", "sup5", "sup6", "sup7", "sup8", "sup9">>
SubDigits == <<"sub0", "sub1", "sub2", "sub3", "sub4", "sub5", "sub6", "sub7", "sub8", "sub9">>

\* _MATH_CHAR_MAP
MATH_CHAR_MAP ==
  [c \in {"uf028", "uf0d6", "uf0b0", "uf0b2", "uf0b3", "uf02d"} |->
     CASE c = "uf028" -> Sqrt
       [] c = "uf0d6" -> Sqrt
       [] c = "uf0b0" -> Degree
       [] c = "uf0b2" -> SupDigits[3]
       [] c = "uf0b3" -> SupDigits[4]
       [] c = "uf02d" -> Minus]

normalize_math_chars(text) ==
  [k \in 1..Len(text) |->
     IF text[k] \in DOMAIN MATH_CHAR_MAP THEN MATH_CHAR_MAP[text[k]] ELSE text[k]]

\* text.translate(str.maketrans("0123456789", ...))
Translate(text, digits) ==
  [k \in 1..Len(text) |->
     IF IsDigit(text[k]) THEN digits[DigitVal[text[k]] + 1] ELSE text[k]]

row_text(row, dominant) ==
  normalize_math_chars(Strip(RowText(row_sorted(row), 1, -1, dominant, << >>)))

avg_top(row) == Frac(SumSeq([k \in 1..Len(row) |-> row[k].top]), Len(row))
avg_bot(row) == Frac(SumSeq([k \in 1..Len(row) |-> row[k].bottom]), Len(row))
min_x0(row) ==
  CHOOSE m \in {row[k].x0 : k \in 1..Len(row)} : \A k \in 1..Len(row) : m <= row[k].x0

\* avg_size > 0 and avg_size < dominant_size * 0.80
is_sub(row, dominant) ==
  /\ SizesOf(row) # << >>
  /\ 5 * SumSeq(SizesOf(row)) < 4 * dominant * Len(SizesOf(row))

\* a small row goes to the end of the last line emitted before it
MergeRow(prev, row, text) ==
  [prev EXCEPT
     !.text = @ \o (IF FLess(FMid(avg_top(row), avg_bot(row)), FMid(prev.top, prev.bottom))
                    THEN Translate(text, SupDigits)
                    ELSE Translate(text, SubDigits)),
     !.bottom = FMax(@, avg_bot(row))]

RECURSIVE BuildLines(_, _, _, _)
BuildLines(rows, i, dominant, result) ==
  IF i > Len(rows) THEN result
  ELSE IF row_text(rows[i], dominant) = << >> THEN BuildLines(rows, i + 1, dominant, result)
  ELSE IF is_sub(rows[i], dominant) /\ result # << >>
  THEN BuildLines(rows, i + 1, dominant,
                  [result EXCEPT ![Len(result)] =
                     MergeRow(@, rows[i], row_text(rows[i], dominant))])
  ELSE BuildLines(rows, i + 1, dominant,
                  Append(result, [text   |-> row_text(rows[i], dominant),
                                  top    |-> avg_top(rows[i]),
                                  bottom |-> avg_bot(rows[i]),
                                  x0     |-> min_x0(rows[i])]))

RowsOf(cs) ==
  IF cs = << >> THEN << >>
  ELSE GroupRows(sorted_chars(cs), 2, <<sorted_chars(cs)[1]>>,
                 sorted_chars(cs)[1].top, << >>)

extract_text_lines(cs) ==
  IF cs = << >> THEN << >>
  ELSE BuildLines(RowsOf(cs), 1, dominant_size(cs), << >>)

\* the glyphs of the pages
Glyph(text, top, bottom, x0, x1, size) ==
  [text |-> text, top |-> top, bottom |-> bottom, x0 |-> x0, x1 |-> x1, size |-> size]

G_m == Glyph("m", 100, 112, 10, 16, 12)
G_v == Glyph("v", 100, 112, 19, 25, 12)
\* small, 8 points under the top of the baseline row, centre below its centre
G_1below == Glyph("1", 108, 114, 16, 19, 6)
\* small, 8 points over the top of the baseline row
G_2above == Glyph("2", 92, 98, 25, 28, 6)
\* a baseline glyph of a tall row further down, and a small glyph that starts
\* 6 points under its top with its centre above the row's centre
G_vTall == Glyph("v", 130, 150, 19, 25, 12)
G_2high == Glyph("2", 136, 142, 25, 28, 6)
\* a glyph of the baseline row, 4 points lower, far to the right: within the
\* tolerance of 'm' above it and of the small '1' below it
G_x == Glyph("x", 104, 116, 40, 46, 12)
\* a space alone on a row higher up
G_space == Glyph(" ", 60, 72, 10, 13, 12)
G_sup2 == Glyph("uf0b2", 100, 112, 46, 49, 12)

GlyphPool == {G_m, G_v, G_1below, G_2above, G_vTall, G_2high, G_x, G_sup2, G_space}

MaxGlyphs == 4

GlyphPages == UNION {[1..n -> GlyphPool] : n \in 0..MaxGlyphs}

InitLines ==
  /\ corpus = 0
  /\ visual_lines = << >>
  /\ questions = << >>
  /\ current_q = NoQuestion
  /\ state = "IDLE"
  /\ stopped = FALSE
  /\ last_option_key = NoKey
  /\ last_option_x0 = 0
  /\ event = "start"
  /\ header_at = << >>
  /\ all_images = << >>
  /\ attached = << >>
  /\ promoted = 0
  /\ shots = << >>
  /\ full_text = << >>
  /\ NoUploads
  /\ chars \in GlyphPages
  /\ regions = [images |-> << >>, figures |-> << >>]
  /\ saved = << >>
  /\ meta = << >>
  /\ offset = 0
  /\ pc = "page"

\* lines = _extract_text_lines(page)
ExtractTextLines ==
  /\ pc = "page"
  /\ visual_lines' = extract_text_lines(chars)
  /\ pc' = "lines"
  /\ UNCHANGED <<corpus, questions, current_q, state, stopped, last_option_key,
                 last_option_x0, event, header_at, all_images, attached,
                 promoted, shots, full_text, UploadVars, PageVars>>

NextLines == ExtractTextLines

SpecLines == InitLines /\ [][NextLines]_vars

\* ------------------------------------------------------------------------
\* _save_page_images: the image regions of a page
\* ------------------------------------------------------------------------
\* A raster image is [x0, y0, x1, y1, ok], a vector figure [x0, top, x1,
\* bottom, ok]; ok tells whether cropping, rendering and saving succeed.

COVER_TOL == 30

\* the saved file of raster image idx ("img") or of figure idx ("fig")
RegionPath(kind, idx) == [kind |-> kind, idx |-> idx]

RECURSIVE SaveImages(_, _, _)
SaveImages(images, i, acc) ==
  IF i > Len(images) THEN acc
  ELSE IF \/ Min(images[i].y0, images[i].y1) >= Max(images[i].y0, images[i].y1)
          \/ images[i].x0 >= images[i].x1
       THEN SaveImages(images, i + 1, acc)
  ELSE IF \/ images[i].x1 - images[i].x0 < MIN_DIM
          \/ Max(images[i].y0, images[i].y1) - Min(images[i].y0, images[i].y1) < MIN_DIM
       THEN SaveImages(images, i + 1, acc)
  ELSE IF ~images[i].ok THEN SaveImages(images, i + 1, acc)
  ELSE SaveImages(images, i + 1,
                  Append(acc, [path   |-> RegionPath("img", i - 1),
                               top    |-> Min(images[i].y0, images[i].y1),
                               bottom |-> Max(images[i].y0, images[i].y1)]))

\* any(abs((r.top + r.bottom) / 2 - fig_center_y) < 30 for r in saved)
already_covered(acc, ftop, fbottom) ==
  \E k \in 1..Len(acc) :
    Abs((acc[k].top + acc[k].bottom) - (ftop + fbottom)) < 2 * COVER_TOL

RECURSIVE SaveFigures(_, _, _)
SaveFigures(figures, i, acc) ==
  IF i > Len(figures) THEN acc
  ELSE IF \/ figures[i].x1 - figures[i].x0 < MIN_DIM
          \/ figures[i].bottom - figures[i].top < MIN_DIM
       THEN SaveFigures(figures, i + 1, acc)
  ELSE IF already_covered(acc, figures[i].top, figures[i].bottom)
       THEN SaveFigures(figures, i + 1, acc)
  ELSE IF ~figures[i].ok THEN SaveFigures(figures, i + 1, acc)
  ELSE SaveFigures(figures, i + 1,
                   Append(acc, [path   |-> RegionPath("fig", i - 1),
                                top    |-> figures[i].top,
                                bottom |-> figures[i].bottom]))

save_page_images(rg) == SaveFigures(rg.figures, 1, SaveImages(rg.images, 1, << >>))

Raster(x0, y0, x1, y1, ok) == [x0 |-> x0, y0 |-> y0, x1 |-> x1, y1 |-> y1, ok |-> ok]
Figure(x0, top, x1, bottom, ok) ==
  [x0 |-> x0, top |-> top, x1 |-> x1, bottom |-> bottom, ok |-> ok]

RasterPool ==
  { Raster(0, 100, 100, 200, TRUE),     \* centre 150
    Raster(0, 100, 39, 200, TRUE),      \* too narrow
    Raster(0, 300, 100, 260, TRUE),     \* y0 below y1, 40 high
    Raster(0, 100, 100, 200, FALSE),    \* cannot be rendered
    Raster(0, 400, 100, 400, TRUE) }    \* empty

FigurePool ==
  { Figure(0, 120, 100, 200, TRUE),     \* centre 160
    Figure(0, 300, 100, 360, TRUE),     \* centre 330
    Figure(0, 320, 100, 380, TRUE),     \* centre 350
    Figure(0, 400, 100, 439, TRUE),     \* too low
    Figure(0, 210, 100, 270, FALSE) }   \* centre 240, cannot be rendered

MaxRegions == 2

RegionLists(pool) == UNION {[1..n -> pool] : n \in 0..MaxRegions}

InitImages ==
  /\ corpus = 0
  /\ visual_lines = << >>
  /\ questions = << >>
  /\ current_q = NoQuestion
  /\ state = "IDLE"
  /\ stopped = FALSE
  /\ last_option_key = NoKey
  /\ last_option_x0 = 0
  /\ event = "start"
  /\ header_at = << >>
  /\ all_images = << >>
  /\ attached = << >>
  /\ promoted = 0
  /\ shots = << >>
  /\ full_text = << >>
  /\ NoUploads
  /\ chars = << >>
  /\ regions \in [images : RegionLists(RasterPool), figures : RegionLists(FigurePool)]
  /\ saved = << >>
  /\ meta = << >>
  /\ offset = 0
  /\ pc = "page"

\* page_imgs = _save_page_images(page, page_num)
SavePageImages ==
  /\ pc = "page"
  /\ saved' = save_page_images(regions)
  /\ pc' = "saved"
  /\ UNCHANGED <<corpus, visual_lines, questions, current_q, state, stopped,
                 last_option_key, last_option_x0, event, header_at, all_images,
                 attached, promoted, shots, full_text, UploadVars, chars, regions,
                 meta, offset>>

NextImages == SavePageImages

SpecImages == InitImages /\ [][NextImages]_vars

\* ------------------------------------------------------------------------
\* parse_with_diagram_info, pass 1: lines, images and metadata page by page
\* ------------------------------------------------------------------------
\* The extraction of the text or of the images of a page may raise; both are
\* caught per page.

\* the image regions a page can hold, in page coordinates
PageRegionChoices ==
  { [images |-> << >>, figures |-> << >>],
    [images |-> <<Raster(0, 0, 100, MIN_DIM, TRUE)>>, figures |-> << >>],
    [images |-> << >>, figures |-> <<Figure(0, 0, 100, MIN_DIM, TRUE)>>] }

\* the file name of a region carries the page number
PagePath(path, page_num) == path @@ [page |-> page_num]

\* _save_page_images(page, page_num) with y_offset added to top and bottom
OffsetImages(rg, page_num, y) ==
  [k \in 1..Len(save_page_images(rg)) |->
     [path   |-> PagePath(save_page_images(rg)[k].path, page_num),
      top    |-> save_page_images(rg)[k].top + y,
      bottom |-> save_page_images(rg)[k].bottom + y]]

\* the lines of a page with y added to top and bottom
ShiftLines(lines, y) ==
  [k \in 1..Len(lines) |-> [lines[k] EXCEPT !.top = @ + y, !.bottom = @ + y]]

\* faulty variant: a failed text extraction discards the lines collected so far
extend_lines_reset(acc, lines, y, fails) ==
  IF fails THEN << >> ELSE acc \o ShiftLines(lines, y)

\* all_visual_lines.extend(page_lines), unless _extract_text_lines raised
extend_lines(acc, lines, y, fails) ==
  IF fails THEN acc ELSE acc \o ShiftLines(lines, y)

\* all_images.extend(page_imgs), unless _save_page_images raised
extend_images(acc, rg, page_num, y, fails) ==
  IF fails THEN acc ELSE acc \o OffsetImages(rg, page_num, y)

InitCollect ==
  /\ corpus \in 1..Len(AttachDocs)
  /\ visual_lines = << >>
  /\ questions = << >>
  /\ current_q = NoQuestion
  /\ state = "IDLE"
  /\ stopped = FALSE
  /\ last_option_key = NoKey
  /\ last_option_x0 = 0
  /\ event = "start"
  /\ header_at = << >>
  /\ all_images = << >>
  /\ attached = << >>
  /\ promoted = 0
  /\ shots = << >>
  /\ full_text = << >>
  /\ NoUploads
  /\ chars = << >>
  /\ regions \in [1..Len(AttachDocs[corpus]) -> PageRegionChoices]
  /\ saved = << >>
  /\ meta = << >>
  /\ offset = 0
  /\ pc = "pass1"

\* one iteration of "for page_num, page in enumerate(pdf.pages, start=1)"
CollectPage(text_fails, images_fail) ==
  /\ pc = "pass1"
  /\ Len(meta) < Len(AttachDocs[corpus])
  /\ visual_lines' = extend_lines(visual_lines, AttachDocs[corpus][Len(meta) + 1].lines,
                                  offset, text_fails)
  /\ all_images' = extend_images(all_images, regions[Len(meta) + 1], Len(meta) + 1,
                                 offset, images_fail)
  /\ meta' = Append(meta, [y_offset |-> offset,
                           height   |-> AttachDocs[corpus][Len(meta) + 1].height,
                           page_num |-> Len(meta) + 1,
                           text_failed   |-> text_fails,      \* history
                           images_failed |-> images_fail])    \* history
  /\ offset' = offset + AttachDocs[corpus][Len(meta) + 1].height + PageGap
  /\ UNCHANGED <<corpus, questions, current_q, state, stopped, last_option_key,
                 last_option_x0, event, header_at, attached, promoted, shots,
                 full_text, UploadVars, chars, regions, saved, pc>>

\* questions = parse_questions_from_lines(all_visual_lines)
ParseCollected ==
  /\ pc = "pass1"
  /\ Len(meta) = Len(AttachDocs[corpus])
  /\ questions' = parse_questions_from_lines(visual_lines)
  /\ pc' = "parsed"
  /\ UNCHANGED <<corpus, visual_lines, current_q, state, stopped, last_option_key,
                 last_option_x0, event, header_at, all_images, attached, promoted,
                 shots, full_text, UploadVars, PageVars>>

NextCollect ==
  \/ \E text_fails, images_fail \in BOOLEAN : CollectPage(text_fails, images_fail)
  \/ ParseCollected

SpecCollect == InitCollect /\ [][NextCollect]_vars

\* ------------------------------------------------------------------------
\* Properties of the parser
\* ------------------------------------------------------------------------

\* a step that consumed a line, and that line
IsReadStep == Len(visual_lines') = Len(visual_lines) + 1
NewText == Strip(visual_lines'[Len(visual_lines')].text)
LastText == Strip(visual_lines[Len(visual_lines)].text)

IsStopLine(t) == STOP_PATTERNS(t) \/ SolutionColon(t)

\* the live question as a list of at most one record
Live == IF current_q = NoQuestion THEN << >> ELSE <<current_q>>
AllRecords == questions \o Live

\* a step that neither finishes a question nor starts one
NotHeaderStep == questions' = questions /\ header_at' = header_at

IsDecimal(s) == s # << >> /\ \A k \in 1..Len(s) : IsDigit(s[k])

\* 'n. body' or 'n) body' with n in 1..200 and a non-empty body
IsBareHeaderForm(t) ==
  LET d == DigitRun(t, 1)
  IN /\ d > 0
     /\ ToInt(SubSeq(t, 1, d)) \in 1..MaxQuestionNumber
     /\ At(t, d + 1, {".", ")"})
     /\ Strip(Drop(t, d + 2)) # << >>

BareHeaderLines == {i \in 1..Len(visual_lines) : IsBareHeaderForm(visual_lines[i].text)}

\* the input is k >= 1 blocks: a bare-numbered header, then at most four
\* letter-option lines; no stop marker, no noise
BlocksOfHeaderAndOptions ==
  /\ 1 \in BareHeaderLines
  /\ \A i \in 1..Len(visual_lines) :
       /\ i \in BareHeaderLines \/ OPTION_LETTER_RE(visual_lines[i].text).ok
       /\ ~IsStopLine(visual_lines[i].text)
       /\ ~NOISE_RE(visual_lines[i].text)
  /\ \A i \in 1..(Len(visual_lines) - 4) : \E j \in i..(i + 4) : j \in BareHeaderLines

\* C1: an input of k blocks (bare-numbered header, then zero to four letter
\* options) yields exactly k records, one per header line in document order.
C1_OneRecordPerHeader ==
  (pc = "done" /\ BlocksOfHeaderAndOptions) =>
     /\ Len(questions) = Cardinality(BareHeaderLines)
     /\ \A k \in 1..Len(questions) :
          k <= Len(header_at) /\ header_at[k] \in BareHeaderLines

\* C2: a stop marker finishes the live question once, with the fields it had
\* before that line, and latches stopped; after that no line changes the
\* emitted records.
C2_StopFinalisesAndLatches ==
  [][ /\ (IsReadStep /\ ~stopped /\ IsStopLine(NewText)) =>
           /\ stopped'
           /\ current_q' = NoQuestion
           /\ questions' = IF current_q = NoQuestion THEN questions
                           ELSE Append(questions, NormalizeOptions(current_q))
      /\ stopped => (stopped' /\ questions' = questions /\ current_q' = NoQuestion)
    ]_vars

\* a header line was read after the stop marker had finished a question with options
C2_HeaderAfterStop ==
  /\ stopped
  /\ event = "after_stop"
  /\ Len(questions) = 1
  /\ count_options(questions[1]) >= 1
  /\ IsBareHeaderForm(LastText)

\* C3: the emitted records plus the live question are as many as the header
\* transitions taken so far, and at the end no question is live: every header
\* yields exactly one record, whatever its number of options.
C3_OneRecordPerHeaderTransition ==
  /\ Len(questions) + Len(Live) = Len(header_at)
  /\ pc = "done" => current_q = NoQuestion

C3_RecordsWithFewOptions ==
  /\ pc = "done"
  /\ \E i, j \in 1..Len(questions) :
       count_options(questions[i]) = 0 /\ count_options(questions[j]) = 1

\* C4: once a label has been accepted for a slot of the live record, no later
\* option line (labelled or bullet) replaces the slot's text or its _opt_y.
C4_FirstOccurrenceWins ==
  [][ (IsReadStep /\ event' = "option" /\ current_q # NoQuestion) =>
        \A i \in 1..4 :
          Letters[i] \in DOMAIN current_q.opt_y =>
            /\ current_q'[OptionKeys[i]] = current_q[OptionKeys[i]]
            /\ current_q'.opt_y[Letters[i]] = current_q.opt_y[Letters[i]]
    ]_vars

\* C5: every emitted record has _y_start <= _y_end and every option anchor
\* lies between them.
C5_YExtentContainsAnchors ==
  \A i \in 1..Len(questions) :
    LET q == questions[i]
    IN /\ q.y_start <= q.y_end
       /\ \A l \in DOMAIN q.opt_y : q.y_start <= q.opt_y[l] /\ q.opt_y[l] <= q.y_end

\* an emitted record with an option, one of whose lines reaches below _y_end
C5_LineReachesBelowYEnd ==
  \E i \in 1..Len(questions) :
    LET q == questions[i]
    IN /\ DOMAIN q.opt_y # {}
       /\ \E k \in 1..Len(visual_lines) :
            /\ q.y_start <= visual_lines[k].top
            /\ visual_lines[k].top <= q.y_end
            /\ visual_lines[k].bottom > q.y_end

\* C6: the records are in the order of their header lines: the k-th record
\* starts at the k-th header line, its _y_start is that line's top, no line
\* starts two records, and the _y_start values never decrease.
C6_RecordsInHeaderOrder ==
  /\ Len(AllRecords) = Len(header_at)
  /\ \A k \in 1..Len(AllRecords) :
       /\ k <= Len(header_at)
       /\ AllRecords[k].y_start = visual_lines[header_at[k]].top
  /\ \A k, m \in 1..Len(AllRecords) :
       k < m => /\ header_at[k] < header_at[m]
                /\ AllRecords[k].y_start <= AllRecords[m].y_start

\* three records, the last two starting at the same top
C6_ThreeRecordsTwoAtOneTop ==
  /\ pc = "done"
  /\ Len(questions) >= 3
  /\ questions[1].y_start < questions[2].y_start
  /\ questions[2].y_start = questions[3].y_start

\* C7: no record, emitted or live, has a decimal _num above 200.
C7_NoRecordAbove200 ==
  \A k \in 1..Len(AllRecords) :
    IsDecimal(AllRecords[k].num) => ToInt(AllRecords[k].num) <= MaxQuestionNumber

\* the line begins with digits, with no prefix before them and no delimiter
\* after them
BareDigitsNoDelim(t) ==
  LET d == DigitRun(t, 1)
  IN d > 0 /\ ~At(t, SkipWS(t, d + 1), HeaderDelims)

\* the line is taken as an OCR-spaced header in IDLE
OcrSpacedInIdle(t) ==
  state = "IDLE" /\ ~stopped /\ OcrFilter(QUESTION_OCR_SPACED_RE(t)).ok

\* C8 as stated: in every state a line beginning with a bare digit sequence
\* with no delimiter neither finishes a question nor starts one.
C8_BareDigitsNeverHeader ==
  [][ (IsReadStep /\ BareDigitsNoDelim(NewText)) => NotHeaderStep ]_vars

\* C8 amended: such a line, unless it is a stop marker, neither finishes a
\* question nor starts one, except in IDLE when it is OCR-spaced digits with a
\* body and a value of at most 200; that line does start a record.
C8_BareDigitsHeaderOnlyAsOcrInIdle ==
  [][ (IsReadStep /\ BareDigitsNoDelim(NewText) /\ ~IsStopLine(NewText)) =>
        IF OcrSpacedInIdle(NewText) /\ ~NOISE_RE(NewText)
        THEN event' = "header_ocr" /\ header_at' # header_at
        ELSE NotHeaderStep
    ]_vars

\* spaced digits with a body read inside a question: a continuation
C8_SpacedDigitsInsideQuestion ==
  /\ visual_lines # << >>
  /\ event = "continuation"
  /\ BareDigitsNoDelim(LastText)
  /\ QUESTION_OCR_SPACED_RE(LastText).ok

\* the line is a prefix of the set followed by a number of at most 200, no body
IsNumberOnlyLine(t, prefixes) ==
  \E p \in prefixes :
    /\ Len(t) > Len(p)
    /\ SubSeq(t, 1, Len(p)) = p
    /\ IsDecimal(Drop(t, Len(p) + 1))
    /\ Len(t) - Len(p) <= 3
    /\ ToInt(Drop(t, Len(p) + 1)) <= MaxQuestionNumber

DottedPrefixes ==
  { <<"Q", ".">>, <<"Q", ".", " ">>, <<"Q", "u", "e", " ">>, <<"Q", "u", "e", ".", " ">>,
    <<"Q", "u", "e", "s", "t", "i", "o", "n", " ">> }

UndottedQPrefixes == { <<"Q">>, <<"Q", " ">> }

\* the step emits the live question, if any, with the fields it had (its
\* _y_end apart, which the line's bottom may have extended)
FinishesLive ==
  IF current_q = NoQuestion THEN questions' = questions
  ELSE /\ Len(questions') = Len(questions) + 1
       /\ SubSeq(questions', 1, Len(questions)) = questions
       /\ [questions'[Len(questions')] EXCEPT !.y_end = current_q.y_end]
            = NormalizeOptions(current_q)

\* the step finishes the live question and starts a record with empty text
StartsEmptyRecord ==
  /\ event' = "header_number_only"
  /\ FinishesLive
  /\ header_at' = Append(header_at, Len(visual_lines) + 1)
  /\ current_q' # NoQuestion
  /\ current_q'.question = << >>
  /\ current_q'.opt_y = EmptyOptY

\* the continuation line that follows a number-only header becomes the question
\* text, with no leading separator
BodyFollowsNumberOnly ==
  (IsReadStep /\ event = "header_number_only" /\ event' = "continuation") =>
     current_q'.question = NewText

\* C9 as stated: a number-only line with prefix Q, Q., Que, Que. or Question
\* starts a record with empty text in every state.
C9_NumberOnlyStartsRecord ==
  [][ /\ (IsReadStep /\ ~stopped
            /\ IsNumberOnlyLine(NewText, DottedPrefixes \cup UndottedQPrefixes))
         => StartsEmptyRecord
      /\ BodyFollowsNumberOnly
    ]_vars

\* C9 amended: the prefix is Q. (with its dot) or Que, Que., Question followed
\* by whitespace; a number-only line with a bare Q starts no record.
C9_DottedNumberOnlyStartsRecord ==
  [][ /\ (IsReadStep /\ ~stopped /\ IsNumberOnlyLine(NewText, DottedPrefixes))
         => StartsEmptyRecord
      /\ (IsReadStep /\ ~stopped /\ IsNumberOnlyLine(NewText, UndottedQPrefixes))
         => NotHeaderStep
      /\ BodyFollowsNumberOnly
    ]_vars

\* a number-only line read in IN_OPTIONS, then its body
C9_NumberOnlyThenBody ==
  /\ Len(visual_lines) >= 3
  /\ IsNumberOnlyLine(Strip(visual_lines[Len(visual_lines) - 1].text), DottedPrefixes)
  /\ event = "continuation"
  /\ current_q # NoQuestion
  /\ current_q.question = LastText
  /\ Len(questions) >= 1
  /\ count_options(questions[Len(questions)]) >= 1


\* ------------------------------------------------------------------------
\* Properties of the attachment
\* ------------------------------------------------------------------------

HasImage(q) ==
  ~Falsy(q.image_path) \/ \E i \in 1..4 : ~Falsy(q[OptionImageKeys[i]])

\* C10: from the first pass on, has_diagram = 1 holds for exactly the records
\* an image was attached to, which are the records whose image_path is
\* non-empty or one of whose option_*_image slots is set; promotion of all of
\* a record's images leaves has_diagram at 1.
C10_HasDiagramIffImageAttached ==
  pc \in {"attach", "promote", "promoted"} =>
    \A k \in 1..Len(questions) :
      /\ questions[k].has_diagram \in {0, 1}
      /\ questions[k].has_diagram = 1 <=> (\E i \in 1..Len(attached) : attached[i] = k)
      /\ questions[k].has_diagram = 1 <=> HasImage(questions[k])

\* both images of a record went to option slots
C10_AllImagesPromoted ==
  /\ pc = "promoted"
  /\ \E k \in 1..Len(questions) :
       /\ questions[k].has_diagram = 1
       /\ questions[k].image_path = None
       /\ ~Falsy(questions[k].option_a_image)
       /\ ~Falsy(questions[k].option_b_image)
       /\ attached = <<k, k>>

\* C11 as stated: in a record returned for a source with images,
\* has_diagram = 1 iff image_path, an option_*_image or question_image is
\* non-empty.
C11_HasDiagramIffAnyImageRef ==
  (pc = "returned" /\ all_images # << >>) =>
    \A k \in 1..Len(questions) :
      questions[k].has_diagram = 1
        <=> (HasImage(questions[k]) \/ ~Falsy(questions[k].question_image))

\* C11 amended: in a record returned for a source with images,
\* has_diagram = 1 iff image_path or an option_*_image is non-empty;
\* question_image is the screenshot of the record's span, set whether or not
\* an image was attached, and does not bear on has_diagram.
C11_HasDiagramIgnoresScreenshot ==
  (pc = "returned" /\ all_images # << >>) =>
    \A k \in 1..Len(questions) :
      /\ questions[k].has_diagram = 1 <=> HasImage(questions[k])
      /\ questions[k].question_image = shots[k].path

\* a source with images returns a record with a screenshot and no diagram,
\* next to a record with a diagram
C11_ScreenshotWithoutDiagram ==
  /\ pc = "returned"
  /\ all_images # << >>
  /\ \E k, j \in 1..Len(questions) :
       /\ questions[k].has_diagram = 0
       /\ ~Falsy(questions[k].question_image)
       /\ questions[j].has_diagram = 1

\* the place of a letter in the alphabet
LetterIndex(l) == CHOOSE n \in 1..4 : Letters[n] = l

\* the option letters by recorded Y ascending
letters_by_y(opt_y) ==
  SortSeq(letters_sorted(opt_y),
          LAMBDA a, b : \/ opt_y[a] < opt_y[b]
                        \/ (opt_y[a] = opt_y[b] /\ LetterIndex(a) < LetterIndex(b)))

\* the places in the Y order whose range, widened by 20 above, holds the centre
HitsByY(q, cy2) ==
  {i \in 1..Len(letters_by_y(q.opt_y)) :
     /\ 2 * (opt_range(q, letters_by_y(q.opt_y), i).y_s - OptionTopMargin) <= cy2
     /\ cy2 <= 2 * opt_range(q, letters_by_y(q.opt_y), i).y_e}

\* the image key of the first letter in Y order that holds the centre
FirstByY(q, cy2) ==
  OptionImageKeys[LetterIndex(letters_by_y(q.opt_y)[
     CHOOSE i \in HitsByY(q, cy2) : \A j \in HitsByY(q, cy2) : i <= j])]

\* the image is the only one attached to its question
SoleImage(i) ==
  /\ attached[i] # 0
  /\ \A j \in 1..Len(attached) : attached[j] = attached[i] => j = i

\* C12: promotion takes the option letters in ascending Y order, with ranges
\* from each letter's Y to the next letter's Y in that order; an image alone
\* at its question goes to the first letter in Y order whose range (widened
\* by 20 above) holds its centre, and stays at the question when there is none.
C12_PromotionByYOrder ==
  pc = "promoted" =>
    \A i \in 1..Len(attached) :
      (SoleImage(i) /\ DOMAIN questions[attached[i]].opt_y # {}) =>
        IF HitsByY(questions[attached[i]], Centre2(all_images[i])) = {}
        THEN questions[attached[i]].image_path = all_images[i].path
        ELSE questions[attached[i]][FirstByY(questions[attached[i]], Centre2(all_images[i]))]
               = all_images[i].path


\* ------------------------------------------------------------------------
\* Properties of the routes
\* ------------------------------------------------------------------------

\* the steps a handler has taken
Did(r, step) == \E k \in 1..Len(req[r].trace) : req[r].trace[k] = step

\* the handler of r takes this step
Acts(r) == req'[r] # req[r]

ErrorStatuses == {400, 500, 422}

\* C13: a step of an upload changes the questions table only when the upload
\* has a non-empty extraction result and no extractor exception, and an upload
\* that answered 400, 500 or 422 took no init_db or insert step (and, for 400,
\* no extractor step): the error paths leave the table as it was.
C13_ErrorPathsLeaveTable ==
  /\ [](\A r \in Requests :
          req[r].status \in ErrorStatuses =>
            /\ ~Did(r, "init_db") /\ ~Did(r, "insert")
            /\ (req[r].status = 400 => ~Did(r, "extract") /\ req[r].trace = <<"reject">>)
            /\ (req[r].status = 422 => ~req[r].exc /\ req[r].questions = << >>))
  /\ [][\A r \in Requests :
          (Acts(r) /\ db' # db) =>
            /\ req[r].pc \in {"init_db", "insert"}
            /\ ~req[r].exc
            /\ req[r].questions # << >>
            /\ req'[r].pc \in {"insert", "respond"}]_vars

\* one upload answered 422, another 400, and the earlier rows are still there
C13_ErrorsSeenTableKept ==
  /\ \E r \in Requests : req[r].status = 422
  /\ \E r \in Requests : req[r].status = 400
  /\ db = [exists |-> TRUE, rows |-> OldRows]

\* C14: when a request has ended, the temporary file it created is gone, and
\* the file is there while the extractor reads it; a rejected upload created
\* none.
C14_TempFileAlwaysDeleted ==
  \A r \in Requests :
    /\ (req[r].pc = "done" /\ req[r].tmp_path # 0 => req[r].tmp_path \notin tmp_files)
    /\ (req[r].pc = "parse" => req[r].tmp_path \in tmp_files)
    /\ (req[r].status = 400 => req[r].tmp_path = 0)

\* the rows of the table after init_db and the insert of qs
Stored(qs) == [k \in 1..Len(qs) |-> qs[k] @@ [id |-> k]]

\* C15: when an upload answers 200 for N >= 1 records, the table holds exactly
\* these N records with ids 1..N in emission order, the count is N, and a
\* read-back of this table returns the rows in that order.
C15_SuccessfulUploadReplacesTable ==
  [][/\ \A r \in Requests :
          (req[r].pc = "respond" /\ req'[r].pc = "done") =>
            /\ req'[r].status = 200
            /\ Len(req[r].questions) >= 1
            /\ req'[r].count = Len(req[r].questions)
            /\ db' = [exists |-> TRUE, rows |-> Stored(req[r].questions)]
            /\ get_all_questions(db') = Stored(req[r].questions)
     /\ (read_back' # read_back /\ db.exists => read_back' = db.rows)]_vars

\* both uploads succeeded, and the read-back shows two rows of one of them
C15_ReadBackOfSecondUpload ==
  /\ \A r \in Requests : req[r].status = 200
  /\ \E r \in Requests :
       /\ req[r].order = MaxUploads
       /\ req[r].count = 2
       /\ read_back = Stored(req[r].questions)
       /\ read_back[1].id = 1 /\ read_back[2].id = 2

\* every upload has responded
AllResponded == \A r \in Requests : req[r].pc = "done"

\* C16: once all uploads have responded, the table holds exactly the records
\* of the upload whose insert ran last, if any upload inserted; and an upload
\* reads and deletes only the temporary file it created.
C16_ConcurrentUploadsOneWinner ==
  /\ [](AllResponded /\ InsertsDone > 0 =>
          \E r \in Requests :
            /\ req[r].order = InsertsDone
            /\ req[r].questions # << >>
            /\ db = [exists |-> TRUE, rows |-> Stored(req[r].questions)])
  /\ [](\A r, q \in Requests :
          r # q /\ req[r].tmp_path # 0 => req[r].tmp_path # req[q].tmp_path)
  /\ [][\A r \in Requests :
          Acts(r) => /\ tmp_files \ tmp_files' \subseteq {req[r].tmp_path}
                     /\ (req[r].pc = "parse" => req[r].tmp_path \in tmp_files)]_vars

\* two uploads overlapped (the second created its file while the first was
\* waiting for its body), both inserted, and the table holds the later one
C16_TwoOverlappingUploadsDone ==
  /\ AllResponded
  /\ InsertsDone = MaxUploads
  /\ \E r \in Requests : req[r].overlapped
  /\ \E r \in Requests :
       /\ req[r].order = MaxUploads
       /\ db.rows = Stored(req[r].questions)

\* ------------------------------------------------------------------------
\* Properties of the line reconstructor
\* ------------------------------------------------------------------------

\* w occurs in s
HasInfix(s, w) ==
  \E k \in 0..(Len(s) - Len(w)) : SubSeq(s, k + 1, k + Len(w)) = w

\* the page holds exactly these glyphs, in any order
PageOf(glyphs) ==
  Len(chars) = Cardinality(glyphs) /\ {chars[k] : k \in 1..Len(chars)} = glyphs

\* the page has the rows baseline 'm', small-below '1', baseline 'v',
\* small-above '2': as four rows in this order from the top, or with 'm' and
\* 'v' on one baseline, '1' under it and '2' over it
RowsM1V2 ==
  \/ PageOf({G_m, G_1below, G_vTall, G_2high})
  \/ PageOf({G_m, G_1below, G_v, G_2above})

\* C17: a small-font row is never a line of its own, and for the rows
\* baseline 'm', small-below '1', baseline 'v', small-above '2' some
\* reconstructed line contains 'm', subscript 1, 'v', superscript 2.
C17_SmallRowsFoldIntoBaseline ==
  pc = "lines" =>
    /\ \A i \in 1..Len(RowsOf(chars)) :
         is_sub(RowsOf(chars)[i], dominant_size(chars)) =>
           \A k \in 1..Len(visual_lines) :
             visual_lines[k].top # avg_top(RowsOf(chars)[i])
    /\ (RowsM1V2 =>
          \E k \in 1..Len(visual_lines) :
            HasInfix(visual_lines[k].text, <<"m", SubDigits[2], "v", SupDigits[3]>>))

\* ------------------------------------------------------------------------
\* Properties of the image collector
\* ------------------------------------------------------------------------

IsSaved(kind, idx) == \E k \in 1..Len(saved) : saved[k].path = RegionPath(kind, idx)

\* an accepted raster region has its vertical centre within 30 points of the
\* centre of figure f
RasterCovers(f) ==
  \E k \in 1..Len(saved) :
    /\ saved[k].path.kind = "img"
    /\ Abs((saved[k].top + saved[k].bottom) - (f.top + f.bottom)) < 2 * COVER_TOL

\* C18: every accepted region is at least 40 wide and 40 high, and a vector
\* figure of that size that can be rendered is accepted unless an accepted
\* raster region has its vertical centre within 30 points of the figure's.
C18_FigureSuppressedOnlyByRaster ==
  pc = "saved" =>
    /\ \A i \in 1..Len(regions.images) :
         IsSaved("img", i - 1) =>
           /\ regions.images[i].x1 - regions.images[i].x0 >= MIN_DIM
           /\ Abs(regions.images[i].y1 - regions.images[i].y0) >= MIN_DIM
    /\ \A i \in 1..Len(regions.figures) :
         /\ IsSaved("fig", i - 1) =>
              /\ regions.figures[i].x1 - regions.figures[i].x0 >= MIN_DIM
              /\ regions.figures[i].bottom - regions.figures[i].top >= MIN_DIM
         /\ (/\ regions.figures[i].x1 - regions.figures[i].x0 >= MIN_DIM
             /\ regions.figures[i].bottom - regions.figures[i].top >= MIN_DIM
             /\ regions.figures[i].ok
             /\ ~RasterCovers(regions.figures[i])) => IsSaved("fig", i - 1)

\* ------------------------------------------------------------------------
\* Properties of the question screenshots
\* ------------------------------------------------------------------------

\* the screenshot span of question k: from PAD_TOP over its header to its
\* end, clamped to the start of the next question
SpanTop(k) == questions[k].y_start - PAD_TOP
SpanBottom(k) == clamped_y_end(questions, k)

\* the part of page pm the span of question k covers, in document coordinates
CutTop(pm, k) == Max(SpanTop(k), pm.y_offset)
CutBottom(pm, k) == Min(SpanBottom(k), pm.y_offset + pm.height)

\* the pages the span of question k intersects
PagesOfSpan(k) ==
  {i \in 1..Len(page_meta(AttachDocs[corpus])) :
     CutTop(page_meta(AttachDocs[corpus])[i], k)
       < CutBottom(page_meta(AttachDocs[corpus])[i], k)}

\* slice s is the cut of its page by the span of question k, page-local
IsCutOf(s, k) ==
  /\ s.page_num \in PagesOfSpan(k)
  /\ s.local_start
       = CutTop(page_meta(AttachDocs[corpus])[s.page_num], k)
           - page_meta(AttachDocs[corpus])[s.page_num].y_offset
  /\ s.local_end
       = CutBottom(page_meta(AttachDocs[corpus])[s.page_num], k)
           - page_meta(AttachDocs[corpus])[s.page_num].y_offset
  /\ s.local_start >= 0
  /\ s.local_end <= page_meta(AttachDocs[corpus])[s.page_num].height
  /\ s.height = ((s.local_end - s.local_start) * Resolution) \div 72

\* C19: a screenshot none of whose crops failed has one slice per page its
\* span intersects, each slice the intersection of the span with the page in
\* page-local coordinates, in ascending page order, pasted one under the other
\* from 0, so the canvas height is the sum of the slice heights; the question
\* gets the one image.
C19_OneSlicePerIntersectingPage ==
  pc \in {"promoted", "cleanup"} =>
    \A k \in 1..Len(shots) :
      shots[k].failing = 0 =>
        /\ Len(shots[k].slices) = Cardinality(PagesOfSpan(k))
        /\ \A j \in 1..Len(shots[k].slices) : IsCutOf(shots[k].slices[j], k)
        /\ \A j \in 1..(Len(shots[k].slices) - 1) :
             shots[k].slices[j].page_num < shots[k].slices[j + 1].page_num
        /\ Len(shots[k].pastes) = Len(shots[k].slices) + 1
        /\ shots[k].pastes[1] = 0
        /\ \A j \in 1..Len(shots[k].slices) :
             shots[k].pastes[j + 1] = shots[k].pastes[j] + shots[k].slices[j].height
        /\ (shots[k].save_ok /\ PagesOfSpan(k) # {} =>
              questions[k].question_image = QshotPath(k))

\* a question was given a screenshot stitched from slices of two or more pages
C19_StitchedAcrossPages ==
  /\ pc \in {"promoted", "cleanup"}
  /\ \E k \in 1..Len(shots) :
       /\ shots[k].failing = 0
       /\ Len(shots[k].slices) >= 2
       /\ shots[k].slices[2].local_start = 0
       /\ questions[k].question_image = QshotPath(k)

\* C20: the records returned by parse_with_diagram_info and by
\* parse_questions_from_text have none of the fields _num, _y_start, _y_end,
\* _opt_y.
C20_InternalFieldsStripped ==
  pc = "returned" =>
    \A k \in 1..Len(questions) :
      DOMAIN questions[k] \cap {"num", "y_start", "y_end", "opt_y"} = {}

\* ------------------------------------------------------------------------
\* Properties of the page collection
\* ------------------------------------------------------------------------

RECURSIVE HeightsBefore(_, _)
\* the heights of the pages before page i, each with the gap of 20
HeightsBefore(doc, i) ==
  IF i <= 1 THEN 0 ELSE HeightsBefore(doc, i - 1) + doc[i - 1].height + 20

RECURSIVE LinesOfPages(_, _)
\* the lines of the pages 1..n whose text extraction did not fail, shifted
LinesOfPages(doc, n) ==
  IF n = 0 THEN << >>
  ELSE LinesOfPages(doc, n - 1)
         \o (IF meta[n].text_failed THEN << >>
             ELSE ShiftLines(doc[n].lines, HeightsBefore(doc, n)))

\* the image of page n is among the collected images
ImageOfPage(n) == \E k \in 1..Len(all_images) : all_images[k].path.page = n

\* C21: a failing text or image extraction costs only the lines (the images)
\* of its page; every page is handled and, failed or not, advances the offset
\* by its height plus 20, so the page offsets are those of a run without
\* failures and strictly increase.
C21_PageFailuresAreLocal ==
  pc \in {"pass1", "parsed"} =>
    /\ \A i \in 1..Len(meta) :
         /\ meta[i].y_offset = HeightsBefore(AttachDocs[corpus], i)
         /\ meta[i].page_num = i
         /\ (i > 1 => meta[i - 1].y_offset < meta[i].y_offset)
         /\ (ImageOfPage(i) <=>
               ~meta[i].images_failed /\ save_page_images(regions[i]) # << >>)
    /\ offset = HeightsBefore(AttachDocs[corpus], Len(meta) + 1)
    /\ visual_lines = LinesOfPages(AttachDocs[corpus], Len(meta))
    /\ \A k \in 1..Len(all_images) :
         all_images[k].top >= meta[all_images[k].path.page].y_offset
    /\ (pc = "parsed" => Len(meta) = Len(AttachDocs[corpus]))

\* the text of page 1 and the images of page 2 failed, and the lines of a
\* later page and the image of page 1 were collected and parsed
C21_FailedPageSkipped ==
  /\ pc = "parsed"
  /\ Len(meta) >= 2
  /\ meta[1].text_failed /\ ~meta[2].text_failed
  /\ meta[2].images_failed /\ ImageOfPage(1)
  /\ visual_lines # << >>
  /\ visual_lines[1].top >= meta[2].y_offset
  /\ questions # << >>

\* a crop of the screenshot of question k raised, or the canvas was not saved
ShotFailed(k) == shots[k].failing \in PagesOfSpan(k) \/ ~shots[k].save_ok

\* C22: when a page slice cannot be rendered or the image cannot be saved,
\* the question is still there and its question_image is None, and the
\* questions without such a failure have their screenshot.
C22_FailedScreenshotIsNone ==
  pc \in {"promoted", "cleanup"} =>
    /\ Len(shots) <= Len(questions)
    /\ \A k \in 1..Len(shots) :
         /\ ShotFailed(k) => questions[k].question_image = None
         /\ (~ShotFailed(k) /\ PagesOfSpan(k) # {} =>
               questions[k].question_image = QshotPath(k))

\* ------------------------------------------------------------------------
\* Properties of the image attachment
\* ------------------------------------------------------------------------

\* twice the centre of the image the attachment pass handles next
NextCentre2 == all_images[Len(attached) + 1].top + all_images[Len(attached) + 1].bottom

\* the extended range of question k holds the centre
Extended(k) ==
  /\ 2 * (questions[k].y_start - 150) <= NextCentre2
  /\ NextCentre2 <= 2 * (questions[k].y_end + 150)

\* twice the distance of the centre to the nearer endpoint of question k
ToEndpoint2(k) ==
  IF Abs(NextCentre2 - 2 * questions[k].y_start) <= Abs(NextCentre2 - 2 * questions[k].y_end)
  THEN Abs(NextCentre2 - 2 * questions[k].y_start)
  ELSE Abs(NextCentre2 - 2 * questions[k].y_end)

\* twice the distance of the centre to question k: 0 inside [y_start, y_end]
ToQuestion2(k) ==
  IF 2 * questions[k].y_start <= NextCentre2 /\ NextCentre2 <= 2 * questions[k].y_end
  THEN 0 ELSE ToEndpoint2(k)

\* question w is the one the region belongs to
IsWinner(w) ==
  /\ w \in 1..Len(questions)
  /\ IF \E k \in 1..Len(questions) : Extended(k)
     THEN /\ Extended(w)
          /\ \A k \in 1..Len(questions) : Extended(k) => ToQuestion2(w) <= ToQuestion2(k)
     ELSE \A k \in 1..Len(questions) : ToEndpoint2(w) <= ToEndpoint2(k)

\* C23: with at least one question, the attachment of an image region goes to
\* exactly one question, the nearest among those whose extended range holds
\* the region's centre, else the nearest by endpoint distance; the path is
\* appended to that question's image_path and no other question changes.
C23_ImageGoesToNearestQuestion ==
  [][(pc = "attach" /\ attached' # attached /\ questions # << >>) =>
       /\ IsWinner(attached'[Len(attached')])
       /\ Len(questions') = Len(questions)
       /\ \A k \in 1..Len(questions) :
            IF k = attached'[Len(attached')]
            THEN /\ questions'[k].image_path
                      = (IF questions[k].image_path = None
                         THEN all_images[Len(attached')].path
                         ELSE questions[k].image_path \o <<",">>
                                \o all_images[Len(attached')].path)
                 /\ questions'[k].question = questions[k].question
            ELSE questions'[k] = questions[k]]_vars

\* of two questions the second holds two paths, the later after the earlier,
\* and the second region lies outside every extended range
C23_TwoPathsOnSecondQuestion ==
  /\ pc = "promote"
  /\ Len(questions) = 2
  /\ attached = <<2, 2>>
  /\ questions[2].image_path = all_images[1].path \o <<",">> \o all_images[2].path
  /\ all_images[2].top + all_images[2].bottom > 2 * (questions[2].y_end + 150)

\* the document coordinates of the top and the bottom of a slice
SliceTop(s) == HeightsBefore(AttachDocs[corpus], s.page_num) + s.local_start
SliceBottom(s) == HeightsBefore(AttachDocs[corpus], s.page_num) + s.local_end

\* C24: no slice of a question's screenshot reaches below the start of the
\* next question or below the question's own end, and none starts higher than
\* 6 points above the question's start; when no crop fails the first slice
\* starts exactly there or, that point not being on the page, at the top of
\* its page.
C24_ScreenshotStopsAtNextQuestion ==
  pc \in {"promoted", "cleanup"} =>
    \A k \in 1..Len(shots) :
      /\ \A j \in 1..Len(shots[k].slices) :
           /\ SliceTop(shots[k].slices[j]) >= questions[k].y_start - 6
           /\ SliceBottom(shots[k].slices[j]) <= questions[k].y_end
           /\ (k < Len(questions) =>
                 SliceBottom(shots[k].slices[j]) <= questions[k + 1].y_start)
      /\ (shots[k].failing = 0 /\ shots[k].slices # << >> =>
            \/ SliceTop(shots[k].slices[1]) = questions[k].y_start - 6
            \/ shots[k].slices[1].local_start = 0)

\* a question whose end was pushed down by the next header line has a
\* screenshot that ends exactly at the start of the next question
C24_ClampedAtNextHeader ==
  /\ pc \in {"promoted", "cleanup"}
  /\ \E k \in 1..Len(shots) :
       /\ k < Len(questions)
       /\ questions[k].y_end > questions[k + 1].y_start
       /\ shots[k].slices # << >>
       /\ SliceBottom(shots[k].slices[Len(shots[k].slices)]) = questions[k + 1].y_start
       /\ SliceTop(shots[k].slices[1]) = questions[k].y_start - 6

\* ------------------------------------------------------------------------
\* Properties of the parser, continued
\* ------------------------------------------------------------------------

\* a question is live
IsLive == state \in {"IN_QUESTION", "IN_OPTIONS"} /\ current_q # NoQuestion

\* the line matches the numeric option pattern and the bare numeric header
\* pattern
OptionAndHeader(t) == OPTION_NUMERIC_RE(t).ok /\ QUESTION_BARE_NUM_RE(t).ok

\* the step takes the line as an option of the live question
TakenAsOption ==
  /\ event' = "option"
  /\ questions' = questions
  /\ header_at' = header_at
  /\ current_q' # NoQuestion
  /\ current_q'.num = current_q.num
  /\ current_q'.y_start = current_q.y_start
  /\ current_q'.question = current_q.question
  /\ state' = "IN_OPTIONS"

\* C25 as stated: while a question is live, every line that matches an option
\* pattern and a numeric header pattern is handled as an option; it finishes
\* no question and starts no record.
C25_OptionAndHeaderIsOption ==
  [][(IsReadStep /\ IsLive /\ OptionAndHeader(NewText)) => TakenAsOption]_vars

\* C25, amended: the same for the lines that are no stop marker; a stop marker
\* of that shape finishes the live question and starts no record.
C25_OptionAndHeaderIsOptionUnlessStop ==
  [][(IsReadStep /\ IsLive /\ OptionAndHeader(NewText)) =>
       IF IsStopLine(NewText)
       THEN /\ stopped'
            /\ Len(questions') = Len(questions) + 1
            /\ current_q' = NoQuestion
            /\ header_at' = header_at
       ELSE TakenAsOption]_vars

\* '2) R' was read while question 5 was live and became its option b
C25_NumberedLineBecameOption ==
  /\ event = "option"
  /\ OptionAndHeader(LastText)
  /\ ~IsStopLine(LastText)
  /\ questions = << >>
  /\ current_q # NoQuestion
  /\ current_q.option_b = <<"R">>
  /\ Len(header_at) = 1

\* the index of the first stop marker, or one past the last line read
FirstStopAt ==
  LET S == {i \in 1..Len(visual_lines) : IsStopLine(Strip(visual_lines[i].text))}
  IN IF S = {} THEN Len(visual_lines) + 1
     ELSE CHOOSE i \in S : \A j \in S : i <= j

\* the lines of record k: from its header up to the line before the next
\* header or the stop marker, blank and noise lines left out
OwnLines(k) ==
  LET last == IF k < Len(header_at) THEN header_at[k + 1] - 1 ELSE FirstStopAt - 1
  IN {i \in header_at[k]..last :
        /\ Strip(visual_lines[i].text) # << >>
        /\ ~NOISE_RE(Strip(visual_lines[i].text))}

LastOwnLine(k) == CHOOSE i \in OwnLines(k) : \A j \in OwnLines(k) : j <= i

IsContinuationStep ==
  /\ IsReadStep
  /\ IsLive
  /\ NewText # << >>
  /\ ~IsStopLine(NewText)
  /\ ~NOISE_RE(NewText)
  /\ try_option(NewText, TRUE).key = NoKey
  /\ event' \notin HeaderEvents

\* the fields of the live question that differ after the step, _y_end aside
ChangedFields ==
  {f \in DOMAIN current_q : f # "y_end" /\ current_q'[f] # current_q[f]}

ParserState ==
  <<questions, current_q, state, stopped, last_option_key, last_option_x0>>

\* C28: a noise line leaves the parser state unchanged; in IDLE every line
\* that is no stop marker and is not taken as a header leaves it unchanged;
\* only a header step creates a record.
C28_NoiseAndIdleLinesChangeNothing ==
  [][IsReadStep =>
       /\ NOISE_RE(NewText) => UNCHANGED <<ParserState, header_at>>
       /\ (state = "IDLE" /\ ~IsStopLine(NewText) /\ event' \notin HeaderEvents)
            => UNCHANGED <<ParserState, header_at>>
       /\ Len(AllRecords') > Len(AllRecords) => event' \in HeaderEvents]_vars

\* a noise line below option a of the live question: the question still ends
\* at the option's line
C28_NoiseBelowLiveQuestion ==
  /\ event = "noise"
  /\ NOISE_RE(LastText)
  /\ state = "IN_OPTIONS"
  /\ current_q # NoQuestion
  /\ current_q.option_a # None
  /\ current_q.y_end < visual_lines[Len(visual_lines)].top

\* C30: the state is IDLE exactly while no header has been read; inside the
\* loop and before the stop marker a question is live iff the state is not
\* IDLE; a header in the OCR-spaced form starts only the first record.
C30_IdleExactlyBeforeFirstHeader ==
  [][/\ state' = "IDLE" <=> header_at' = << >>
     /\ state # "IDLE" => state' # "IDLE"
     /\ (pc' = "loop" /\ ~stopped') => (current_q' # NoQuestion <=> state' # "IDLE")
     /\ (header_at' # header_at /\ event' = "header_ocr")
          => /\ header_at = << >>
             /\ state = "IDLE"
             /\ AllRecords = << >>
             /\ Len(AllRecords') = 1]_vars

\* '2 1 P' started the first record; read again after the header 'Q.7' it is
\* a line of question 7
C30_SecondOcrLineIsNoHeader ==
  /\ Len(visual_lines) = 3
  /\ visual_lines[1].text = L_ocr21P
  /\ visual_lines[3].text = L_ocr21P
  /\ header_at = <<1, 2>>
  /\ Len(questions) = 1
  /\ current_q # NoQuestion
  /\ state = "IN_QUESTION"
  /\ event = "continuation"

\* ------------------------------------------------------------------------
\* Properties of the line reconstructor, continued
\* ------------------------------------------------------------------------

RECURSIVE Flatten(_)
Flatten(rows) == IF rows = << >> THEN << >> ELSE Head(rows) \o Flatten(Tail(rows))

\* the number of times glyph g occurs in the sequence cs
Occurrences(cs, g) == Cardinality({k \in 1..Len(cs) : cs[k] = g})

\* C29: the reconstructed lines are in ascending order of top, each with
\* top <= bottom and a text that is not blank; the rows hold every glyph of the
\* page exactly once, and a glyph starts a row exactly when its top is more
\* than 5 points from the top of the first glyph of the row before it.
C29_RowsByAnchorLinesAscending ==
  pc = "lines" =>
    LET rows == RowsOf(chars)
    IN /\ \A k \in 1..Len(visual_lines) :
            /\ ~FLess(visual_lines[k].bottom, visual_lines[k].top)
            /\ Strip(visual_lines[k].text) # << >>
            /\ k > 1 => FLess(visual_lines[k - 1].top, visual_lines[k].top)
       /\ Len(Flatten(rows)) = Len(chars)
       /\ \A g \in GlyphPool : Occurrences(Flatten(rows), g) = Occurrences(chars, g)
       /\ Len(visual_lines) <= Len(rows)
       /\ \A r \in 1..Len(rows) :
            /\ rows[r] # << >>
            /\ \A j \in 1..Len(rows[r]) :
                 Abs(rows[r][j].top - rows[r][1].top) <= LINE_Y_TOL
            /\ r > 1 => Abs(rows[r][1].top - rows[r - 1][1].top) > LINE_Y_TOL

\* 'm' at top 100, 'x' at 104 and the small '1' at 108, under a row of one
\* space: 'x' is within 5 points of both, '1' is 8 points from the anchor 'm'
\* and starts a row, and the row of the space gives no line
C29_NewRowFarFromAnchorOnly ==
  /\ pc = "lines"
  /\ PageOf({G_space, G_m, G_x, G_1below})
  /\ Len(RowsOf(chars)) = 3
  /\ RowsOf(chars)[3] = <<G_1below>>
  /\ Len(visual_lines) = 1

\* ------------------------------------------------------------------------
\* Properties of the attachment and the promotion, continued
\* ------------------------------------------------------------------------

\* twice the distance from the centre to the interval [_y_start, _y_end]
IntervalDist2(q, cy2) ==
  IF cy2 < 2 * q.y_start THEN 2 * q.y_start - cy2
  ELSE IF cy2 > 2 * q.y_end THEN cy2 - 2 * q.y_end
  ELSE 0

\* the single rule: the first question at the least distance
NearestByInterval(qs, cy2) ==
  CHOOSE w \in 1..Len(qs) :
    \A k \in 1..Len(qs) :
      /\ IntervalDist2(qs[w], cy2) <= IntervalDist2(qs[k], cy2)
      /\ k < w => IntervalDist2(qs[w], cy2) < IntervalDist2(qs[k], cy2)

\* C31: for questions with _y_start <= _y_end the two-stage choice of the
\* attachment is the question at the least distance from the image centre to
\* [_y_start, _y_end], the earliest one among equals.
C31_TwoStagesAreNearestInterval ==
  (/\ pc \in {"attach", "promote"}
   /\ questions # << >>
   /\ \A k \in 1..Len(questions) : questions[k].y_start <= questions[k].y_end)
  => \A i \in 1..Len(attached) :
       /\ attached[i] = NearestByInterval(questions, Centre2(all_images[i]))
       /\ attached[i] = best_q(questions, Centre2(all_images[i]))

\* the fallback decided between two questions at the same distance, more than
\* 150 points away, and the earlier one took the image
C31_FallbackTieGoesToEarlier ==
  /\ attached = <<1>>
  /\ Len(questions) >= 2
  /\ \A k \in 1..Len(questions) : ~InRange(questions[k], Centre2(all_images[1]))
  /\ IntervalDist2(questions[1], Centre2(all_images[1]))
       = IntervalDist2(questions[2], Centre2(all_images[1]))
  /\ questions[1].has_diagram = 1
  /\ questions[2].has_diagram = 0

\* the places of record k that hold the path: positions of its image_path
\* list and option image slots
PlacesIn(qs, k, path) ==
  {<<k, "image_path", j>> : j \in {j \in 1..Len(Split(qs[k].image_path, << >>)) :
                                     /\ qs[k].image_path # None
                                     /\ Split(qs[k].image_path, << >>)[j] = path}}
    \cup {<<k, OptionImageKeys[n], 0>> : n \in {n \in 1..4 : qs[k][OptionImageKeys[n]] = path}}

Places(qs, path) == UNION {PlacesIn(qs, k, path) : k \in 1..Len(qs)}

\* C32: with at least one question, once the first pass is over every image
\* path is held at exactly one place of the records, in the record the image
\* was attached to, through promotion and after it; an option image slot that
\* is set keeps its value.
C32_EveryImageHeldOnce ==
  [][/\ (pc' \in {"promote", "promoted", "cleanup", "returned"} /\ questions' # << >>) =>
          /\ Len(attached') = Len(all_images')
          /\ \A i, j \in 1..Len(all_images') :
               all_images'[i].path = all_images'[j].path => i = j
          /\ \A i \in 1..Len(all_images') :
               /\ attached'[i] \in 1..Len(questions')
               /\ Cardinality(Places(questions', all_images'[i].path)) = 1
               /\ Cardinality(PlacesIn(questions', attached'[i], all_images'[i].path)) = 1
     /\ \A k \in 1..Len(questions) : \A n \in 1..4 :
          questions[k][OptionImageKeys[n]] # None =>
            /\ k <= Len(questions')
            /\ questions'[k][OptionImageKeys[n]] = questions[k][OptionImageKeys[n]]]_vars

\* two images of question 1 lie in the range of option a: the first is in the
\* slot of option a, the second stays in image_path
C32_SecondImageStaysAtQuestion ==
  /\ pc = "promoted"
  /\ Len(all_images) = 2
  /\ attached = <<1, 1>>
  /\ matched_letter(questions[1], Centre2(all_images[1])) = 1
  /\ matched_letter(questions[1], Centre2(all_images[2])) = 1
  /\ questions[1].option_a_image = all_images[1].path
  /\ questions[1].image_path = all_images[2].path
====
